---- MODULE Spec2Model ----
(***************************************************************************)
(* Model of the SmartEnergy cyber-resilience analyzer: the metrics engine  *)
(* (src/analyzer/metrics.py), the correlator (src/analyzer/correlator.py), *)
(* the detector (src/analyzer/detector.py), the reporter's atomic write    *)
(* (src/analyzer/reporter.py) and the pipeline orchestrator with its watch *)
(* loop (src/analyzer/pipeline.py).                                        *)
(*                                                                         *)
(* Units.  Timestamps are whole seconds counted from the start of the run  *)
(* (ISO-8601 strings to second precision in the code).  Multipliers are    *)
(* ten-thousandths, so mttd/mttr before rounding are ten-thousandths of a  *)
(* second; mttd_sec/mttr_sec (round(x, 2)) are centiseconds,               *)
(* availability_pct and the mean_*_min values (round(x, 2)) are            *)
(* hundredths, total_downtime_hr and impact_score (round(x, 4)) are        *)
(* ten-thousandths.                                                        *)
(***************************************************************************)
EXTENDS Integers, Sequences, FiniteSets, TLC

VARIABLES
    pc,               \* position of the run / of the watch loop
    incidents,        \* list[Incident]: input of compute, output of correlate
    horizon_sec,      \* compute's horizon_sec argument
    metrics,          \* PolicyMetrics returned by compute (NoMetrics before)
    alerts,           \* list[Alert]: input of correlate, output of detect
    policy_modifiers, \* the modifiers of the policy under evaluation
    events,           \* run_pipeline.events, the loaded input
    policy_names,     \* run_pipeline's policy_names argument
    all_metrics,      \* run_pipeline.all_metrics
    all_incidents,    \* run_pipeline.all_incidents
    input_lines,      \* the lines of the JSONL input of a load
    file_exists,      \* os.path.isfile(input_path)
    file,             \* the bytes of the JSONL input file
    writer_half,      \* the writer has made half of a record visible
    accumulated_events, \* watch_pipeline.accumulated_events
    file_offset,      \* watch_pipeline.file_offset
    current_size,     \* watch_pipeline.current_size
    iteration,        \* watch_pipeline.iteration
    out_files,        \* the published results.csv and incidents.csv
    tmp_file,         \* the temporary file of the _atomic_write in progress
    reader_view       \* what a concurrent reader got when it opened each file

pipeline_vars == <<events, policy_names, all_metrics, all_incidents, input_lines>>

analysis_vars == <<incidents, horizon_sec, metrics, alerts, policy_modifiers,
                   pipeline_vars>>

watch_vars == <<file_exists, file, writer_half, accumulated_events, file_offset,
                current_size, iteration, out_files, tmp_file, reader_view>>

vars == <<pc, analysis_vars, watch_vars>>

(***************************************************************************)
(* Bounds of the model.                                                    *)
(***************************************************************************)
MaxIncidents == 2      \* length of the incident list handed to compute
MaxTs == 3             \* largest timestamp (seconds) of a compute input
MaxIntervals == 3      \* intervals handed to _merge_intervals
MaxIntervalEnd == 4    \* largest end (seconds) of such an interval
MaxAlerts == 3         \* length of the alert list handed to correlate
MaxEvents == 3         \* events of the input file of a batch run
MaxLines == 3          \* lines of the JSONL file handed to the loader
MaxDdosEvents == 3     \* events of a DDoS scenario handed to detect
MaxSpoofEvents == 6    \* telemetry readings handed to detect
MaxCmdEvents == 4      \* cmd_exec events handed to detect
MaxMixedEvents == 3    \* events of a scenario with one rule family per event
MaxBfEvents == 4       \* auth_failure events handed to detect
MaxFileEvents == 3     \* events of a file whose lines are in any order
MaxRecords == 2        \* records the writer appends to the watched file
ContentChunks == 2     \* pieces in which the content of an output file reaches the disk

(***************************************************************************)
(* Watch-mode state before watch_pipeline starts.                           *)
(***************************************************************************)
NoFile == [iteration |-> 0, chunks |-> 0]     \* the path does not exist
NoTmp == [name |-> "none", iteration |-> 0, chunks |-> 0]
NotOpened == [iteration |-> -1, chunks |-> 0]
OutputFiles == {"results.csv", "incidents.csv"}

WatchNotStarted ==
    /\ file_exists = FALSE
    /\ file = <<>>
    /\ writer_half = FALSE
    /\ accumulated_events = <<>>
    /\ file_offset = 0
    /\ current_size = 0
    /\ iteration = 0
    /\ out_files = [f \in OutputFiles |-> NoFile]
    /\ tmp_file = NoTmp
    /\ reader_view = [f \in OutputFiles |-> NotOpened]

\* run_pipeline's state before it starts.
PipelineNotStarted ==
    /\ events = <<>>
    /\ policy_names = <<>>
    /\ all_metrics = <<>>
    /\ all_incidents = <<>>
    /\ input_lines = <<>>

(***************************************************************************)
(* Generic helpers.                                                        *)
(***************************************************************************)
Missing == -1          \* an empty timestamp string ("")

SeqsUpTo(S, n) == UNION {[1..k -> S] : k \in 0..n}

Max2(a, b) == IF a >= b THEN a ELSE b

RECURSIVE SumSeq(_)
SumSeq(s) == IF s = <<>> THEN 0 ELSE Head(s) + SumSeq(Tail(s))

\* Python's round(n/d, k) once the result is scaled to an integer:
\* round-half-to-even of the rational n/d, d > 0.
RoundHalfEven(n, d) ==
    LET q == n \div d
        r == n % d
    IN  IF 2 * r < d THEN q
        ELSE IF 2 * r > d THEN q + 1
        ELSE IF q % 2 = 0 THEN q ELSE q + 1

(***************************************************************************)
(* Metrics engine, src/analyzer/metrics.py                                 *)
(***************************************************************************)
SecondsPerHour == 3600

NoMetrics == [policy |-> "none"]

high_sev == {"high", "critical"}

\* sorted(intervals, key=lambda x: x[0]): stable insertion by start.
RECURSIVE InsertByStart(_, _)
InsertByStart(iv, sorted) ==
    IF sorted = <<>> THEN <<iv>>
    ELSE IF iv[1] < Head(sorted)[1] THEN <<iv>> \o sorted
    ELSE <<Head(sorted)>> \o InsertByStart(iv, Tail(sorted))

RECURSIVE SortByStart(_)
SortByStart(ivs) ==
    IF ivs = <<>> THEN <<>>
    ELSE InsertByStart(ivs[Len(ivs)], SortByStart(SubSeq(ivs, 1, Len(ivs) - 1)))

\* MergeStep that merges only intervals that overlap, not those that
\* touch.
MergeStepStrict(merged, iv) ==
    LET last == merged[Len(merged)]
    IN  IF iv[1] < last[2]
        THEN [merged EXCEPT ![Len(merged)] = <<last[1], Max2(last[2], iv[2])>>]
        ELSE Append(merged, iv)

\* MergeStep with the max() of the two ends forgotten.
MergeStepNoMax(merged, iv) ==
    LET last == merged[Len(merged)]
    IN  IF iv[1] <= last[2]
        THEN [merged EXCEPT ![Len(merged)] = <<last[1], iv[2]>>]
        ELSE Append(merged, iv)

\* One step of the sweep of _merge_intervals: extend the last merged
\* interval or push a new one.
MergeStep(merged, iv) ==
    LET last == merged[Len(merged)]
    IN  IF iv[1] <= last[2]
        THEN [merged EXCEPT ![Len(merged)] = <<last[1], Max2(last[2], iv[2])>>]
        ELSE Append(merged, iv)

RECURSIVE Sweep(_, _)
Sweep(merged, rest) ==
    IF rest = <<>> THEN merged
    ELSE Sweep(MergeStep(merged, Head(rest)), Tail(rest))

_merge_intervals(intervals) ==
    IF intervals = <<>> THEN <<>>
    ELSE LET sorted_iv == SortByStart(intervals)
         IN  Sweep(<<sorted_iv[1]>>, Tail(sorted_iv))

\* The interval an incident contributes to the downtime, or none:
\* severity in high_sev, both timestamps present, end > start.
DowntimeIntervals(incs) ==
    LET keep(inc) == /\ inc.severity \in high_sev
                     /\ inc.detect_ts # Missing
                     /\ inc.recover_ts # Missing
                     /\ ~(inc.recover_ts <= inc.detect_ts)
        F[k \in 0..Len(incs)] ==
            IF k = 0 THEN <<>>
            ELSE IF keep(incs[k])
                 THEN Append(F[k - 1], <<incs[k].detect_ts, incs[k].recover_ts>>)
                 ELSE F[k - 1]
    IN  F[Len(incs)]

TotalSeconds(merged) == SumSeq([k \in 1..Len(merged) |-> merged[k][2] - merged[k][1]])

CountBy(incs, field, value) ==
    Cardinality({k \in 1..Len(incs) : incs[k][field] = value})

\* m.incidents_by_severity / m.incidents_by_threat: the counts keyed by the
\* values of field that occur.
CountsBy(incs, field) ==
    [v \in {incs[k][field] : k \in 1..Len(incs)} |-> CountBy(incs, field, v)]

compute(incs, policy_name, horizon) ==
    IF incs = <<>>
    THEN [policy |-> policy_name, availability_pct |-> 10000,
          total_downtime_hr |-> 0, total_dt_sec |-> 0,
          mean_mttd_min |-> 0, mean_mttr_min |-> 0, incidents_total |-> 0,
          incidents_by_severity |-> <<>>, incidents_by_threat |-> <<>>,
          merged |-> <<>>]
    ELSE LET merged == _merge_intervals(DowntimeIntervals(incs))
             total_dt_sec == TotalSeconds(merged)
             n == Len(incs)
         IN  [policy |-> policy_name,
              availability_pct |->
                  IF horizon > 0
                  THEN RoundHalfEven((horizon - total_dt_sec) * 10000, horizon)
                  ELSE 10000,
              total_downtime_hr |-> RoundHalfEven(total_dt_sec * 10000, SecondsPerHour),
              total_dt_sec |-> total_dt_sec,
              mean_mttd_min |->
                  RoundHalfEven(SumSeq([k \in 1..n |-> incs[k].mttd_sec]), n * 60),
              mean_mttr_min |->
                  RoundHalfEven(SumSeq([k \in 1..n |-> incs[k].mttr_sec]), n * 60),
              incidents_total |-> n,
              incidents_by_severity |-> CountsBy(incs, "severity"),
              incidents_by_threat |-> CountsBy(incs, "threat_type"),
              merged |-> merged]

(***************************************************************************)
(* Strings.  A string the code compares by prefix is modelled as the       *)
(* sequence of its segments, so that startswith is decided on the          *)
(* characters and not on the name: "outage_db" is "outage" followed by     *)
(* "_db".                                                                  *)
(***************************************************************************)
Str(name) ==
    CASE name = "outage_db" -> <<"outage", "_db">>
      [] OTHER -> <<name>>

\* str.startswith
startswith(s, prefix) ==
    /\ Len(prefix) <= Len(s)
    /\ SubSeq(s, 1, Len(prefix)) = prefix

(***************************************************************************)
(* Correlator, src/analyzer/correlator.py                                  *)
(*                                                                         *)
(* An Alert is a record with the fields of contracts/alert.py that the     *)
(* correlator reads: alert_id (the number NNNN of "ALR-NNNN"), threat_type,*)
(* severity, confidence (hundredths), timestamp, component, event_count    *)
(* and event_ids, the sequence of the semicolon-separated tokens of the    *)
(* event_ids string.  A token is <<"COR-", n>> for "COR-00n" or            *)
(* <<"ts", n>> for a raw timestamp.                                        *)
(***************************************************************************)
_DEFAULT_MERGE_WINDOW_SEC == 120

_SEV_ORDER(s) ==
    CASE s = "low" -> 0 [] s = "medium" -> 1 [] s = "high" -> 2
      [] s = "critical" -> 3 [] OTHER -> 0

\* The severity of the first argument, whatever the second.
MaxSevFirst(a, b) == a

\* max(a, b, key=_SEV_ORDER): the first argument wins a tie.
_max_sev(a, b) == IF _SEV_ORDER(b) > _SEV_ORDER(a) THEN b ELSE a

_extract_cor_ids(event_ids) ==
    {event_ids[k] : k \in {j \in 1..Len(event_ids) : event_ids[j][1] = "COR-"}}

\* sorted(cids)[0]: "COR-00m" < "COR-00n" iff m < n.
FirstCorId(cids) == CHOOSE c \in cids : \A d \in cids : c[2] <= d[2]

\* Index of the group with the given key, 0 when there is none.
GroupIndex(groups, key) ==
    IF \E k \in 1..Len(groups) : groups[k].key = key
    THEN CHOOSE k \in 1..Len(groups) : groups[k].key = key
    ELSE 0

\* Phase 1 that also hands an alert with COR-* ids on to phase 2.
Phase1StepKeepsAll(st, a) ==
    LET cids == _extract_cor_ids(a.event_ids) IN
    IF cids # {}
    THEN LET key == FirstCorId(cids)
             k == GroupIndex(st.cor_groups, key)
         IN  IF k = 0
             THEN [st EXCEPT !.cor_groups = Append(@, [key |-> key, members |-> <<a>>]),
                             !.no_cor = Append(@, a)]
             ELSE [st EXCEPT !.cor_groups[k].members = Append(@, a),
                             !.no_cor = Append(@, a)]
    ELSE [st EXCEPT !.no_cor = Append(@, a)]

\* Phase 1, one alert: cor_groups[sorted(cids)[0]].append(a) on a
\* defaultdict, or no_cor.append(a).
Phase1Step(st, a) ==
    LET cids == _extract_cor_ids(a.event_ids) IN
    IF cids # {}
    THEN LET key == FirstCorId(cids)
             k == GroupIndex(st.cor_groups, key)
         IN  IF k = 0
             THEN [st EXCEPT !.cor_groups = Append(@, [key |-> key, members |-> <<a>>])]
             ELSE [st EXCEPT !.cor_groups[k].members = Append(@, a)]
    ELSE [st EXCEPT !.no_cor = Append(@, a)]

RECURSIVE Phase1(_, _)
Phase1(st, as) ==
    IF as = <<>> THEN st ELSE Phase1(Phase1Step(st, Head(as)), Tail(as))

group_key_prefix(a) == Str(a.component) \o <<"|">> \o Str(a.threat_type)

MaxTimestamp(grp) ==
    CHOOSE t \in {grp[k].timestamp : k \in 1..Len(grp)} :
        \A k \in 1..Len(grp) : grp[k].timestamp <= t

Abs(x) == IF x < 0 THEN -x ELSE x

\* The test of the inner loop of phase 2: the group's key starts with the
\* alert's prefix and the alert is within the window of the group's
\* latest timestamp.
Accepts(grp, a, merge_window_sec) ==
    /\ startswith(grp.key, group_key_prefix(a))
    /\ Abs(a.timestamp - MaxTimestamp(grp.members)) <= merge_window_sec

\* Phase 2, one alert: join the first accepting group in insertion order,
\* else time_groups[prefix|alert_id] = [a] (which replaces the members of
\* a group that already has this key).
Phase2Step(time_groups, a, merge_window_sec) ==
    LET ok == {k \in 1..Len(time_groups) : Accepts(time_groups[k], a, merge_window_sec)} IN
    IF ok # {}
    THEN LET k == CHOOSE i \in ok : \A j \in ok : i <= j
         IN  [time_groups EXCEPT ![k].members = Append(@, a)]
    ELSE LET gk == group_key_prefix(a) \o <<"|", "ALR-", a.alert_id>>
             k == GroupIndex(time_groups, gk)
         IN  IF k = 0
             THEN Append(time_groups, [key |-> gk, members |-> <<a>>])
             ELSE [time_groups EXCEPT ![k].members = <<a>>]

RECURSIVE Phase2(_, _, _)
Phase2(time_groups, as, merge_window_sec) ==
    IF as = <<>> THEN time_groups
    ELSE Phase2(Phase2Step(time_groups, Head(as), merge_window_sec), Tail(as),
                merge_window_sec)

\* list.sort(key=...): stable insertion sort of a list of records by a field.
RECURSIVE InsertByField(_, _, _)
InsertByField(x, sorted, f) ==
    IF sorted = <<>> THEN <<x>>
    ELSE IF x[f] < Head(sorted)[f] THEN <<x>> \o sorted
    ELSE <<Head(sorted)>> \o InsertByField(x, Tail(sorted), f)

RECURSIVE SortByField(_, _)
SortByField(xs, f) ==
    IF xs = <<>> THEN <<>>
    ELSE InsertByField(xs[Len(xs)], SortByField(SubSeq(xs, 1, Len(xs) - 1), f), f)

\* _BASE_TIMING.get(threat, {"mttd": 30.0, "mttr": 120.0}), seconds.
_BASE_TIMING(threat) ==
    CASE threat = "credential_attack"   -> [mttd |-> 30, mttr |-> 120]
      [] threat = "availability_attack" -> [mttd |-> 15, mttr |-> 180]
      [] threat = "integrity_attack"    -> [mttd |-> 60, mttr |-> 240]
      [] threat = "outage"              -> [mttd |-> 10, mttr |-> 300]
      [] OTHER                          -> [mttd |-> 30, mttr |-> 120]

\* _SEV_IMPACT.get(sev, 0.5), tenths.
_SEV_IMPACT(sev) ==
    CASE sev = "low" -> 2 [] sev = "medium" -> 4 [] sev = "high" -> 7
      [] sev = "critical" -> 10 [] OTHER -> 5

\* The impact score left as computed.
CapImpactNone(impact) == impact

\* min(impact_score, 1.0), ten-thousandths.
CapImpact(impact) == IF impact < 10000 THEN impact ELSE 10000

\* pm.get(threat, {}).get(field, 1.0), ten-thousandths.
Modifier(pm, threat, field) ==
    IF threat \in DOMAIN pm /\ field \in DOMAIN pm[threat]
    THEN pm[threat][field] ELSE 10000

RECURSIVE MaxSevOf(_, _)
MaxSevOf(sev, rest) ==
    IF rest = <<>> THEN sev ELSE MaxSevOf(_max_sev(sev, Head(rest).severity), Tail(rest))

\* strftime("%Y-%m-%dT%H:%M:%SZ") of start + timedelta(seconds=d), d in
\* ten-thousandths of a second: the fraction of a second is dropped.
FormatTs(start_sec, d) == start_sec + (d \div 10000)

_build_incident(group, idx, policy, pm) ==
    LET threat == group[1].threat_type
        bases == _BASE_TIMING(threat)
        mttd == bases.mttd * Modifier(pm, threat, "mttd_multiplier")
        mttr == bases.mttr * Modifier(pm, threat, "mttr_multiplier")
        start_ts == group[1].timestamp
        sev == MaxSevOf(group[1].severity, Tail(group))
        n == Len(group)
        conf_sum == SumSeq([k \in 1..n |-> group[k].confidence])
        impact_mult == Modifier(pm, threat, "impact_multiplier")
        impact == RoundHalfEven(_SEV_IMPACT(sev) * conf_sum * impact_mult, 1000 * n)
    IN  [incident_id |-> idx,
         policy |-> policy,
         threat_type |-> threat,
         severity |-> sev,
         component |-> {group[k].component : k \in 1..n},
         event_count |-> SumSeq([k \in 1..n |-> group[k].event_count]),
         start_ts |-> start_ts,
         detect_ts |-> FormatTs(start_ts, mttd),
         recover_ts |-> FormatTs(start_ts, mttd + mttr),
         mttd_sec |-> RoundHalfEven(mttd, 100),
         mttr_sec |-> RoundHalfEven(mttr, 100),
         impact_score |-> CapImpact(impact),
         members |-> group]     \* not a field of Incident: the group it was built from

correlate(as, policy_name, pm, merge_window_sec) ==
    IF as = <<>> THEN <<>>
    ELSE LET p1 == Phase1([cor_groups |-> <<>>, no_cor |-> <<>>], as)
             time_groups == Phase2(<<>>, p1.no_cor, merge_window_sec)
             all_groups == p1.cor_groups \o time_groups
             built == [idx \in 1..Len(all_groups) |->
                          _build_incident(SortByField(all_groups[idx].members, "timestamp"),
                                          idx, policy_name, pm)]
         IN  SortByField(built, "start_ts")

(***************************************************************************)
(* Detector, src/analyzer/detector.py                                      *)
(*                                                                         *)
(* An Event is a record with the fields of contracts/event.py that the     *)
(* detector reads: timestamp, source, component, event, key, value,        *)
(* actor, ip and correlation_id (0 for the empty string, n for "COR-00n"). *)
(* A rule is an entry of rules.yaml with every optional key present; its   *)
(* id is the sequence of the segments of the id string, confidence is in   *)
(* hundredths.                                                             *)
(***************************************************************************)
\* float(e.value): the numeric strings of the model and their values.
IsNumeric(v) == v \in {"100", "220", "300"}

FloatOf(v) == CASE v = "100" -> 100 [] v = "220" -> 220 [] v = "300" -> 300

\* a.lower()
Lower(a) == CASE a = " Admin " -> " admin " [] a = "Operator" -> "operator" [] OTHER -> a

\* actor.strip().lower()
StripLower(actor) ==
    CASE actor = " Admin " -> "admin" [] actor = "Operator" -> "operator" [] OTHER -> actor

\* _diff_sec(a, b), seconds
_diff_sec(a, b) == b - a

\* window = rule.get("window_sec", 60) * mod.get("window_multiplier", 1.0),
\* in ten-thousandths of a second.
EffectiveWindow(rule, pm) ==
    rule.window_sec * Modifier(pm, rule.threat_type, "window_multiplier")

\* The threshold scaled by the policy's mttd_multiplier instead of its
\* threshold_multiplier.
EffectiveThresholdByMttd(rule, pm) ==
    Max2(1, RoundHalfEven(rule.threshold
                              * Modifier(pm, rule.threat_type, "mttd_multiplier"),
                          10000))

\* threshold = max(1, round(rule.get("threshold", 1)
\*                          * mod.get("threshold_multiplier", 1.0)))
EffectiveThreshold(rule, pm) ==
    Max2(1, RoundHalfEven(rule.threshold
                              * Modifier(pm, rule.threat_type, "threshold_multiplier"),
                          10000))

\* SlideFire that drops from buf the events window or more before the
\* current one.
RECURSIVE SlideFireStrictWindow(_, _, _, _)
SlideFireStrictWindow(evts, buf, window, threshold) ==
    IF evts = <<>> THEN <<>>
    ELSE LET e == Head(evts)
             Within(b) == _diff_sec(b.timestamp, e.timestamp) * 10000 < window
             buf2 == Append(SelectSeq(buf, Within), e)
         IN  IF Len(buf2) >= threshold THEN buf2
             ELSE SlideFireStrictWindow(Tail(evts), buf2, window, threshold)

\* SlideFire that, once buf holds threshold events, also takes the later
\* events of the partition that lie within window of the first.
RECURSIVE SlideFireWholeWindow(_, _, _, _)
SlideFireWholeWindow(evts, buf, window, threshold) ==
    IF evts = <<>> THEN <<>>
    ELSE LET e == Head(evts)
             Within(b) == _diff_sec(b.timestamp, e.timestamp) * 10000 <= window
             buf2 == Append(SelectSeq(buf, Within), e)
             Later(x) == _diff_sec(buf2[1].timestamp, x.timestamp) * 10000 <= window
         IN  IF Len(buf2) >= threshold THEN buf2 \o SelectSeq(Tail(evts), Later)
             ELSE SlideFireWholeWindow(Tail(evts), buf2, window, threshold)

\* SlideFire that keeps in buf the events window or more before the
\* current one and drops the nearer ones.
RECURSIVE SlideFireOutsideWindow(_, _, _, _)
SlideFireOutsideWindow(evts, buf, window, threshold) ==
    IF evts = <<>> THEN <<>>
    ELSE LET e == Head(evts)
             Beyond(b) == _diff_sec(b.timestamp, e.timestamp) * 10000 >= window
             buf2 == Append(SelectSeq(buf, Beyond), e)
         IN  IF Len(buf2) >= threshold THEN buf2
             ELSE SlideFireOutsideWindow(Tail(evts), buf2, window, threshold)

\* The sliding window over the events of one partition: for each event,
\* drop from buf the events more than window before it, append it, and
\* stop with buf when it holds threshold events.  <<>> when it never does.
RECURSIVE SlideFire(_, _, _, _)
SlideFire(evts, buf, window, threshold) ==
    IF evts = <<>> THEN <<>>
    ELSE LET e == Head(evts)
             Within(b) == _diff_sec(b.timestamp, e.timestamp) * 10000 <= window
             buf2 == Append(SelectSeq(buf, Within), e)
         IN  IF Len(buf2) >= threshold THEN buf2
             ELSE SlideFire(Tail(evts), buf2, window, threshold)

\* The partition key of an event under each windowed rule family.
PartitionKey(family, e) ==
    CASE family = "BF"    -> <<IF e.ip = "" THEN "unknown" ELSE e.ip, e.source>>
      [] family = "DDOS"  -> <<e.source>>
      [] family = "SPOOF" -> <<e.source, e.key>>
      [] family = "OUT"   -> <<e.source>>

\* The key of every event, repeated as often as it occurs.
RECURSIVE KeysOfEveryEvent(_, _, _)
KeysOfEveryEvent(evts, family, keys) ==
    IF evts = <<>> THEN keys
    ELSE KeysOfEveryEvent(Tail(evts), family,
                          Append(keys, PartitionKey(family, Head(evts))))

\* The keys of a defaultdict(list) in insertion order.
RECURSIVE KeysInOrder(_, _, _)
KeysInOrder(evts, family, keys) ==
    IF evts = <<>> THEN keys
    ELSE LET k == PartitionKey(family, Head(evts)) IN
         KeysInOrder(Tail(evts), family,
                     IF \E i \in 1..Len(keys) : keys[i] = k THEN keys ELSE Append(keys, k))

\* groups.items(), each group's events sorted by timestamp (stable).
Groups(evts, family) ==
    LET keys == KeysInOrder(evts, family, <<>>) IN
    [g \in 1..Len(keys) |->
        LET InGroup(e) == PartitionKey(family, e) = keys[g] IN
        [key |-> keys[g], evts |-> SortByField(SelectSeq(evts, InGroup), "timestamp")]]

\* ";".join(e.correlation_id or e.timestamp for e in buf), as tokens.
EventIds(buf) ==
    [k \in 1..Len(buf) |->
        IF buf[k].correlation_id # 0 THEN <<"COR-", buf[k].correlation_id>>
        ELSE <<"ts", buf[k].timestamp>>]

\* The alert stamped with the last event of the buffer.
MkAlertLastTimestamp(counter, rule, sev, conf, buf, component, source) ==
    [alert_id |-> counter,
     rule_id |-> rule.id,
     threat_type |-> rule.threat_type,
     severity |-> sev,
     confidence |-> conf,
     timestamp |-> buf[Len(buf)].timestamp,
     component |-> component,
     source |-> source,
     event_count |-> Len(buf),
     event_ids |-> EventIds(buf),
     response_hint |-> rule.response_hint,
     counted |-> buf]

MkAlert(counter, rule, sev, conf, buf, component, source) ==
    [alert_id |-> counter,
     rule_id |-> rule.id,
     threat_type |-> rule.threat_type,
     severity |-> sev,
     confidence |-> conf,
     timestamp |-> buf[1].timestamp,
     component |-> component,
     source |-> source,
     event_count |-> Len(buf),
     event_ids |-> EventIds(buf),
     response_hint |-> rule.response_hint,
     counted |-> buf]     \* not a field of Alert: the events counted in it

\* The alerts of the groups that fired, in group order, numbered from
\* counter + 1.  fired[g] is the firing buffer of group g or <<>>.
RECURSIVE CollectAlerts(_, _, _, _)
CollectAlerts(g, n, counter, AlertOf) ==
    IF g > n THEN <<>>
    ELSE IF AlertOf[g].fired
         THEN <<[AlertOf[g].alert EXCEPT !.alert_id = counter + 1]>>
                  \o CollectAlerts(g + 1, n, counter + 1, AlertOf)
         ELSE CollectAlerts(g + 1, n, counter, AlertOf)

NoAlert == [fired |-> FALSE]

_detect_brute_force(auth_failures, rule, window, threshold, counter) ==
    LET groups == Groups(auth_failures, "BF")
        AlertOf == [g \in 1..Len(groups) |->
            LET buf == SlideFire(groups[g].evts, <<>>, window, threshold) IN
            IF buf = <<>> THEN NoAlert
            ELSE [fired |-> TRUE,
                  alert |-> MkAlert(0, rule, rule.severity, rule.confidence, buf,
                                    groups[g].evts[1].component, groups[g].key[2])]]
    IN  CollectAlerts(1, Len(groups), counter, AlertOf)

\* The escalating events chosen without looking at their key.
SvcImpactAnyKey(all_events, source, first_ts) ==
    LET Impact(s) == /\ s.event = "service_status"
                     /\ s.source = source
                     /\ s.value \in {"degraded", "down"}
                     /\ 0 <= _diff_sec(first_ts, s.timestamp)
                     /\ _diff_sec(first_ts, s.timestamp) <= 120
    IN  SelectSeq(all_events, Impact)

\* The service_status events that escalate a DDoS alert.
SvcImpact(all_events, source, first_ts) ==
    LET Impact(s) == /\ s.event = "service_status"
                     /\ s.source = source
                     /\ s.key = "status"
                     /\ s.value \in {"degraded", "down"}
                     /\ 0 <= _diff_sec(first_ts, s.timestamp)
                     /\ _diff_sec(first_ts, s.timestamp) <= 120
    IN  SelectSeq(all_events, Impact)

_detect_ddos(rate_events, rule, window, threshold, all_events, counter) ==
    LET groups == Groups(rate_events, "DDOS")
        AlertOf == [g \in 1..Len(groups) |->
            LET buf == SlideFire(groups[g].evts, <<>>, window, threshold) IN
            IF buf = <<>> THEN NoAlert
            ELSE LET svc_impact == SvcImpact(all_events, groups[g].key[1], buf[1].timestamp)
                 IN  [fired |-> TRUE,
                      alert |-> MkAlert(0, rule,
                                        IF svc_impact # <<>> THEN "critical" ELSE rule.severity,
                                        IF svc_impact # <<>> THEN 98 ELSE rule.confidence,
                                        buf, groups[g].evts[1].component, groups[g].key[1])]]
    IN  CollectAlerts(1, Len(groups), counter, AlertOf)

\* The anomalous readings of one (source, key) group: out of bounds[key],
\* or more than delta[key] away from the previous numeric reading.
RECURSIVE Anomalies(_, _, _, _)
Anomalies(evts, rule, prev, has_prev) ==
    IF evts = <<>> THEN <<>>
    ELSE LET e == Head(evts) IN
         IF ~IsNumeric(e.value) THEN Anomalies(Tail(evts), rule, prev, has_prev)
         ELSE LET val == FloatOf(e.value)
                  out_of_bounds == /\ e.key \in DOMAIN rule.bounds
                                   /\ (val < rule.bounds[e.key].min
                                       \/ val > rule.bounds[e.key].max)
                  jump == /\ e.key \in DOMAIN rule.delta
                          /\ has_prev
                          /\ Abs(val - prev) > rule.delta[e.key]
                  rest == Anomalies(Tail(evts), rule, val, TRUE)
              IN  IF out_of_bounds \/ jump THEN <<e>> \o rest ELSE rest

_detect_telemetry_spoof(telem_events, rule, window, threshold, counter) ==
    LET groups == Groups(telem_events, "SPOOF")
        AlertOf == [g \in 1..Len(groups) |->
            LET anomalies == Anomalies(groups[g].evts, rule, 0, FALSE)
                buf == IF Len(anomalies) >= threshold
                       THEN SlideFire(anomalies, <<>>, window, threshold)
                       ELSE <<>>
            IN  IF buf = <<>> THEN NoAlert
                ELSE [fired |-> TRUE,
                      alert |-> MkAlert(0, rule,
                                        IF Len(buf) >= 5 THEN "high" ELSE rule.severity,
                                        IF Len(buf) >= 5 THEN 90 ELSE rule.confidence,
                                        buf, anomalies[1].component, groups[g].key[1])]]
    IN  CollectAlerts(1, Len(groups), counter, AlertOf)

\* The actor compared as written, neither trimmed nor lowered.
UnauthorizedCmdExactActor(cmd_events, rule, counter) ==
    LET Unauthorized(e) == e.actor = "" \/ e.actor \notin rule.actor_not_in
        unauth == SelectSeq(cmd_events, Unauthorized)
    IN  IF unauth = <<>> THEN <<>>
        ELSE <<MkAlert(counter + 1, rule, "critical",
                       IF Len(unauth) >= 3 THEN 99 ELSE rule.confidence,
                       unauth, unauth[1].component, unauth[1].source)>>

_detect_unauthorized_cmd(cmd_events, rule, counter) ==
    LET allowed == {Lower(a) : a \in rule.actor_not_in}
        Unauthorized(e) == StripLower(e.actor) = "" \/ StripLower(e.actor) \notin allowed
        unauth == SelectSeq(cmd_events, Unauthorized)
    IN  IF unauth = <<>> THEN <<>>
        ELSE <<MkAlert(counter + 1, rule, "critical",
                       IF Len(unauth) >= 3 THEN 99 ELSE rule.confidence,
                       unauth, unauth[1].component, unauth[1].source)>>

\* The severity of the first severity_override entry whose value occurs
\* in buf, else the rule's severity.
RECURSIVE OverrideSeverity(_, _, _)
OverrideSeverity(overrides, buf, default) ==
    IF overrides = <<>> THEN default
    ELSE IF \E k \in 1..Len(buf) : buf[k].value = Head(overrides).value
         THEN Head(overrides).severity
         ELSE OverrideSeverity(Tail(overrides), buf, default)

_detect_outage(svc_events, rule, window, threshold, all_events, counter) ==
    LET InValues(e) == e.value \in rule.values
        matched == IF rule.values # {} THEN SelectSeq(svc_events, InValues) ELSE svc_events
        groups == Groups(matched, "OUT")
        AlertOf == [g \in 1..Len(groups) |->
            LET buf == SlideFire(groups[g].evts, <<>>, window, threshold) IN
            IF buf = <<>> THEN NoAlert
            ELSE [fired |-> TRUE,
                  alert |-> MkAlert(0, rule,
                                    OverrideSeverity(rule.severity_override, buf, rule.severity),
                                    rule.confidence, buf,
                                    groups[g].evts[1].component, groups[g].key[1])]]
    IN  CollectAlerts(1, Len(groups), counter, AlertOf)

\* One rule of detect's loop: the alerts it adds.
RuleAlerts(rule, evts, pm, alert_counter) ==
    LET window == EffectiveWindow(rule, pm)
        threshold == EffectiveThreshold(rule, pm)
        Matches(e) == e.event = rule.match_event
        matched == SelectSeq(evts, Matches)
    IN  IF ~rule.enabled THEN <<>>
        ELSE IF startswith(rule.id, <<"RULE-BF">>)
             THEN _detect_brute_force(matched, rule, window, threshold, alert_counter)
        ELSE IF startswith(rule.id, <<"RULE-DDOS">>)
             THEN _detect_ddos(matched, rule, window, threshold, evts, alert_counter)
        ELSE IF startswith(rule.id, <<"RULE-SPOOF">>)
             THEN _detect_telemetry_spoof(matched, rule, window, threshold, alert_counter)
        ELSE IF startswith(rule.id, <<"RULE-UCMD">>)
             THEN _detect_unauthorized_cmd(matched, rule, alert_counter)
        ELSE IF startswith(rule.id, <<"RULE-OUT">>)
             THEN _detect_outage(matched, rule, window, threshold, evts, alert_counter)
        ELSE <<>>

RECURSIVE DetectLoop(_, _, _, _)
DetectLoop(rules, evts, pm, found) ==
    IF rules = <<>> THEN found
    ELSE DetectLoop(Tail(rules), evts, pm,
                    found \o RuleAlerts(Head(rules), evts, pm, Len(found)))

\* detect without the final sort.
DetectUnsorted(evts, rules_cfg, pm) ==
    IF evts = <<>> THEN <<>>
    ELSE DetectLoop(rules_cfg, evts, pm, <<>>)

detect(evts, rules_cfg, pm) ==
    IF evts = <<>> THEN <<>>
    ELSE SortByField(DetectLoop(rules_cfg, evts, pm, <<>>), "timestamp")

(***************************************************************************)
(* Specification of the metrics engine: compute applied to a bounded list  *)
(* of incidents and a horizon.                                             *)
(***************************************************************************)
Severities == {"low", "medium", "high", "critical"}

\* An Incident as compute reads it (contracts/incident.py); mttd_sec and
\* mttr_sec follow the timing model detect = start + mttd, recover =
\* detect + mttr where the timestamps are present.
MetricsIncident(sev, d, r) ==
    [incident_id |-> "INC", policy |-> "baseline", threat_type |-> "outage",
     severity |-> sev, start_ts |-> 0, detect_ts |-> d, recover_ts |-> r,
     mttd_sec |-> IF d = Missing THEN 3000 ELSE 100 * d,
     mttr_sec |-> IF d = Missing \/ r = Missing \/ r < d THEN 12000 ELSE 100 * (r - d)]

MetricsIncidentPool ==
    {MetricsIncident(sev, d, r) :
        sev \in {"low", "high", "critical"},
        d \in {Missing} \cup 0..(MaxTs - 1),
        r \in {Missing} \cup 1..MaxTs}

Horizons == {0, 2, SecondsPerHour}

InitMetrics ==
    /\ pc = "compute"
    /\ incidents \in SeqsUpTo(MetricsIncidentPool, MaxIncidents)
    /\ horizon_sec \in Horizons
    /\ metrics = NoMetrics
    /\ alerts = <<>>
    /\ policy_modifiers = <<>>
    /\ PipelineNotStarted
    /\ WatchNotStarted

Compute ==
    /\ pc = "compute"
    /\ metrics' = compute(incidents, "baseline", horizon_sec)
    /\ pc' = "done"
    /\ UNCHANGED <<incidents, horizon_sec, alerts, policy_modifiers, pipeline_vars,
                   watch_vars>>

NextMetrics == Compute

SpecMetrics == InitMetrics /\ [][NextMetrics]_vars

(***************************************************************************)
(* Claims about the metrics engine (checked under SpecMetrics).            *)
(***************************************************************************)
Qualifies(inc) ==
    /\ inc.severity \in {"high", "critical"}
    /\ inc.detect_ts # Missing
    /\ inc.recover_ts # Missing

\* Seconds t (the unit interval [t, t+1]) covered by [from, recover_ts] of
\* some high/critical incident, from being detect_ts or start_ts.
CoveredSeconds(incs, from) ==
    {t \in 0..(MaxTs + 1) :
        \E k \in 1..Len(incs) :
            /\ Qualifies(incs[k])
            /\ incs[k][from] <= t
            /\ t < incs[k].recover_ts}

\* C1: every PolicyMetrics returned by compute has 0 <= availability_pct
\* <= 100, whatever the incidents and the horizon.
C1_AvailabilityInRange ==
    pc = "done" =>
        (metrics.availability_pct >= 0 /\ metrics.availability_pct <= 10000)

C4_DowntimeIsUnionOfStartRecover ==
    pc = "done" =>
        metrics.total_dt_sec = Cardinality(CoveredSeconds(incidents, "start_ts"))

(***************************************************************************)
(* Specification of the interval merge: compute applied to incidents that  *)
(* all contribute an interval, so that _merge_intervals gets every list of *)
(* up to MaxIntervals intervals, in any order.                             *)
(***************************************************************************)
IntervalIncident(d, r) == MetricsIncident("high", d, r)

IntervalIncidentPool ==
    {IntervalIncident(d, r) : d \in 0..(MaxIntervalEnd - 1), r \in 1..MaxIntervalEnd}

InitMerge ==
    /\ pc = "compute"
    /\ incidents \in SeqsUpTo({inc \in IntervalIncidentPool : inc.detect_ts < inc.recover_ts},
                              MaxIntervals)
    /\ horizon_sec = SecondsPerHour
    /\ metrics = NoMetrics
    /\ alerts = <<>>
    /\ policy_modifiers = <<>>
    /\ PipelineNotStarted
    /\ WatchNotStarted

NextMerge == Compute

SpecMerge == InitMerge /\ [][NextMerge]_vars

\* C19: the list _merge_intervals returns is sorted by start with every
\* interval starting strictly after the previous one ends, and merging it
\* again returns it unchanged.
C19_MergedSortedDisjointIdempotent ==
    pc = "done" =>
        /\ \A k \in 1..(Len(metrics.merged) - 1) :
              metrics.merged[k][2] < metrics.merged[k + 1][1]
        /\ _merge_intervals(metrics.merged) = metrics.merged

\* Three intervals given out of order, two of them merged (nested or
\* touching), the third apart.
C19_Witness ==
    /\ pc = "done"
    /\ Len(incidents) = 3
    /\ incidents[1].detect_ts > incidents[3].detect_ts
    /\ Len(metrics.merged) = 2
    /\ \E j, k \in 1..3 : j # k /\ incidents[j].recover_ts = incidents[k].detect_ts

(***************************************************************************)
(* Specification of the correlator: correlate applied to a bounded,        *)
(* timestamp-sorted list of alerts (detect returns its alerts sorted)      *)
(* under the modifiers of one policy.                                      *)
(***************************************************************************)
COR(n) == <<"COR-", n>>
RawTs == <<"ts", 0>>

AlertTemplate(comp, threat, sev, conf, count, ids) ==
    [component |-> comp, threat_type |-> threat, severity |-> sev,
     confidence |-> conf, event_count |-> count, event_ids |-> ids]

AlertTemplates ==
    {AlertTemplate("api", "outage", "high", 90, 1, <<RawTs>>),
     AlertTemplate("api", "outage_db", "critical", 90, 2, <<RawTs, RawTs>>),
     AlertTemplate("db", "outage", "medium", 75, 1, <<RawTs>>),
     AlertTemplate("api", "credential_attack", "high", 85, 5, <<COR(1), COR(2)>>),
     AlertTemplate("api", "integrity_attack", "low", 100, 3, <<RawTs, COR(2)>>),
     AlertTemplate("db", "credential_attack", "critical", 99, 3, <<COR(1)>>)}

\* Seconds between one alert and the next of the list.
AlertGaps == {0, _DEFAULT_MERGE_WINDOW_SEC, _DEFAULT_MERGE_WINDOW_SEC + 1}

MkAlerts(tpl, gaps) ==
    [k \in 1..Len(tpl) |->
        [alert_id |-> k,
         timestamp |-> SumSeq([j \in 1..(k - 1) |-> gaps[j]]),
         component |-> tpl[k].component,
         threat_type |-> tpl[k].threat_type,
         severity |-> tpl[k].severity,
         confidence |-> tpl[k].confidence,
         event_count |-> tpl[k].event_count,
         event_ids |-> tpl[k].event_ids]]

\* policy.modifiers of config/policies.yaml: no modifiers at all (also an
\* unknown policy), and a policy with fractional multipliers.
NoModifiers == <<>>

FractionalModifiers ==
    [t \in {"credential_attack", "outage"} |->
        IF t = "credential_attack"
        THEN [mttd_multiplier |-> 3333, mttr_multiplier |-> 9850,
              impact_multiplier |-> 12000]
        ELSE [mttd_multiplier |-> 9300, mttr_multiplier |-> 9850,
              impact_multiplier |-> 5000]]

InitCorrelate ==
    /\ pc = "correlate"
    /\ \E n \in 0..MaxAlerts :
         \E tpl \in [1..n -> AlertTemplates] :
             \E gaps \in [1..(IF n = 0 THEN 0 ELSE n - 1) -> AlertGaps] :
                 alerts = MkAlerts(tpl, gaps)
    /\ policy_modifiers \in {NoModifiers, FractionalModifiers}
    /\ incidents = <<>>
    /\ horizon_sec = 0
    /\ metrics = NoMetrics
    /\ PipelineNotStarted
    /\ WatchNotStarted

Correlate ==
    /\ pc = "correlate"
    /\ incidents' = correlate(alerts, "policy", policy_modifiers,
                              _DEFAULT_MERGE_WINDOW_SEC)
    /\ pc' = "correlated"
    /\ UNCHANGED <<alerts, policy_modifiers, horizon_sec, metrics, pipeline_vars,
                   watch_vars>>

NextCorrelate == Correlate

SpecCorrelate == InitCorrelate /\ [][NextCorrelate]_vars

(***************************************************************************)
(* Claims about the correlator (checked under SpecCorrelate).              *)
(***************************************************************************)
\* Alerts j and k of the input are members of one returned incident.
SameIncident(j, k) ==
    \E i \in 1..Len(incidents) :
        /\ \E m \in 1..Len(incidents[i].members) : incidents[i].members[m].alert_id = j
        /\ \E m \in 1..Len(incidents[i].members) : incidents[i].members[m].alert_id = k

\* C2: for every incident of correlate, the emitted detect_ts is start_ts
\* plus the emitted mttd_sec and the emitted recover_ts is detect_ts plus
\* the emitted mttr_sec, to second precision (the sums formatted to the
\* second as the timestamps are).
C2_TimestampsAreSumsOfEmittedTimings ==
    pc = "correlated" =>
        \A i \in 1..Len(incidents) :
            /\ incidents[i].detect_ts =
                   (incidents[i].start_ts * 100 + incidents[i].mttd_sec) \div 100
            /\ incidents[i].recover_ts =
                   (incidents[i].detect_ts * 100 + incidents[i].mttr_sec) \div 100

\* C9: two alerts whose event_ids share a COR-* id are in the same incident.
C9_SharedCorIdSameIncident ==
    pc = "correlated" =>
        \A j, k \in 1..Len(alerts) :
            (_extract_cor_ids(alerts[j].event_ids)
                 \cap _extract_cor_ids(alerts[k].event_ids) # {})
            => SameIncident(j, k)

NoCorIds == \A k \in 1..Len(alerts) : _extract_cor_ids(alerts[k].event_ids) = {}

SameLocality(j, k) ==
    /\ alerts[j].component = alerts[k].component
    /\ alerts[j].threat_type = alerts[k].threat_type

\* C10: in a sorted list of alerts without COR-* ids, two alerts of one
\* component and threat_type that are consecutive among the alerts of that
\* component and threat_type are in the same incident iff their timestamps
\* differ by at most merge_window_sec.
C10_ConsecutiveMergedIffWithinWindow ==
    (pc = "correlated" /\ NoCorIds) =>
        \A j, k \in 1..Len(alerts) :
            (/\ j < k
             /\ SameLocality(j, k)
             /\ ~\E m \in (j + 1)..(k - 1) : SameLocality(j, m))
            => (SameIncident(j, k)
                    <=> alerts[k].timestamp - alerts[j].timestamp
                            <= _DEFAULT_MERGE_WINDOW_SEC)

HasNoCorId(k) == _extract_cor_ids(alerts[k].event_ids) = {}

\* C23: two alerts without COR-* ids whose component or threat_type
\* differ are never in the same incident, also when the threat_type of
\* one is a prefix of the threat_type of the other.
C23_DifferentLocalityNeverMerged ==
    pc = "correlated" =>
        \A j, k \in 1..Len(alerts) :
            (HasNoCorId(j) /\ HasNoCorId(k) /\ ~SameLocality(j, k))
            => ~SameIncident(j, k)

\* C26: every alert of an incident has the incident's threat_type (the
\* one whose base timings and multipliers give the incident's mttd and
\* mttr), in groups formed by COR-* id and in groups formed by time and
\* locality.
C26_MembersShareIncidentThreatType ==
    \A i \in 1..Len(incidents) :
        \A m \in 1..Len(incidents[i].members) :
            incidents[i].members[m].threat_type = incidents[i].threat_type

\* The places (incident, position) at which alert k is a member.
MembershipsOf(k) ==
    {im \in {<<i, m>> : i \in 1..Len(incidents), m \in 1..MaxAlerts} :
        /\ im[2] <= Len(incidents[im[1]].members)
        /\ incidents[im[1]].members[im[2]] = alerts[k]}

\* C27: correlate partitions its input: every alert is a member of
\* exactly one incident, the event_counts of the incidents add up to those
\* of the alerts, and a non-empty alert list gives between 1 and
\* Len(alerts) incidents.
C27_IncidentsPartitionAlerts ==
    pc = "correlated" =>
        /\ \A k \in 1..Len(alerts) : Cardinality(MembershipsOf(k)) = 1
        /\ \A i \in 1..Len(incidents) :
              /\ incidents[i].members # <<>>
              /\ \A m \in 1..Len(incidents[i].members) :
                    \E k \in 1..Len(alerts) : incidents[i].members[m] = alerts[k]
        /\ SumSeq([i \in 1..Len(incidents) |-> incidents[i].event_count])
               = SumSeq([k \in 1..Len(alerts) |-> alerts[k].event_count])
        /\ alerts # <<>> => 1 <= Len(incidents) /\ Len(incidents) <= Len(alerts)

\* Three alerts in two incidents: a group formed by COR-* id or by
\* locality that holds two of them, and an alert on its own.
C27_Witness ==
    /\ pc = "correlated"
    /\ Len(alerts) = 3
    /\ Len(incidents) = 2
    /\ \E k \in 1..Len(alerts) : HasNoCorId(k)
    /\ \E k \in 1..Len(alerts) : ~HasNoCorId(k)
    /\ \E i \in 1..Len(incidents) : incidents[i].event_count > incidents[i].members[1].event_count

\* C17: the severity of every incident is the greatest, under
\* low < medium < high < critical, of the severities of its alerts.
C17_SeverityIsMaxOfMembers ==
    \A i \in 1..Len(incidents) :
        /\ \A k \in 1..Len(incidents[i].members) :
              _SEV_ORDER(incidents[i].members[k].severity) <= _SEV_ORDER(incidents[i].severity)
        /\ \E k \in 1..Len(incidents[i].members) :
              incidents[i].members[k].severity = incidents[i].severity

\* An incident whose severity comes from an alert that is not its first.
C17_Witness ==
    \E i \in 1..Len(incidents) :
        /\ Len(incidents[i].members) >= 2
        /\ _SEV_ORDER(incidents[i].members[1].severity) < _SEV_ORDER(incidents[i].severity)

\* C18: 0 <= impact_score <= 1 for every incident (confidences within
\* [0, 1], impact multipliers positive).
C18_ImpactScoreInUnitRange ==
    \A i \in 1..Len(incidents) :
        0 <= incidents[i].impact_score /\ incidents[i].impact_score <= 10000

\* An incident whose score before the cap exceeds 1: critical, mean
\* confidence 0.99, impact_multiplier 1.2.
C18_Witness ==
    \E i \in 1..Len(incidents) :
        /\ incidents[i].severity = "critical"
        /\ Modifier(policy_modifiers, incidents[i].threat_type, "impact_multiplier") > 10000
        /\ \A k \in 1..Len(incidents[i].members) : incidents[i].members[k].confidence = 99
        /\ incidents[i].impact_score = 10000

(***************************************************************************)
(* Batch pipeline, run_pipeline of src/analyzer/pipeline.py, over the      *)
(* configuration of a run: config/rules.yaml with one rule of each family  *)
(* (the rules of tests/conftest.py, thresholds of the windowed rules       *)
(* brought down to the size of the input) and config/policies.yaml with    *)
(* three policies.                                                         *)
(***************************************************************************)
Rule(id, threat, match_event, window_sec, threshold, severity, confidence) ==
    [id |-> id, threat_type |-> threat, enabled |-> TRUE,
     match_event |-> match_event, values |-> {}, actor_not_in |-> {},
     window_sec |-> window_sec, threshold |-> threshold,
     severity |-> severity, confidence |-> confidence,
     bounds |-> <<>>, delta |-> <<>>, severity_override |-> <<>>,
     response_hint |-> "hint"]

RulesCfg ==
    << Rule(<<"RULE-BF", "-001">>, "credential_attack", "auth_failure",
            60, 2, "high", 85),
       Rule(<<"RULE-DDOS", "-001">>, "availability_attack", "rate_exceeded",
            30, 2, "critical", 90),
       [Rule(<<"RULE-SPOOF", "-001">>, "integrity_attack", "telemetry_read",
             60, 2, "medium", 75)
           EXCEPT !.bounds = [k \in {"voltage"} |-> [min |-> 180, max |-> 280]],
                  !.delta = [k \in {"voltage"} |-> 50]],
       [Rule(<<"RULE-UCMD", "-001">>, "integrity_attack", "cmd_exec",
             120, 1, "critical", 95)
           EXCEPT !.actor_not_in = {"operator", "admin"}],
       [Rule(<<"RULE-OUT", "-001">>, "outage", "service_status",
             60, 1, "high", 90)
           EXCEPT !.values = {"degraded", "down"},
                  !.severity_override = <<[value |-> "down", severity |-> "critical"]>>] >>

ThreatTypes ==
    {"credential_attack", "availability_attack", "integrity_attack", "outage"}

\* list_policy_names(policies_cfg)
available == <<"minimal", "baseline", "standard">>

\* policies_cfg["policies"][name]["modifiers"]
PolicyModifiers(name) ==
    CASE name = "minimal" ->
            [t \in {"credential_attack"} |->
                [mttd_multiplier |-> 15000, mttr_multiplier |-> 15000,
                 threshold_multiplier |-> 10000, impact_multiplier |-> 12000]]
      [] name = "baseline" -> <<>>
      [] name = "standard" ->
            [t \in {"credential_attack", "outage"} |->
                IF t = "credential_attack"
                THEN [mttd_multiplier |-> 5000, mttr_multiplier |-> 5000,
                      threshold_multiplier |-> 5000, impact_multiplier |-> 6000]
                ELSE [mttd_multiplier |-> 5000, mttr_multiplier |-> 5000]]

IsAvailable(name) == \E k \in 1..Len(available) : available[k] = name

get_modifiers(name) == IF IsAvailable(name) THEN PolicyModifiers(name) ELSE <<>>

\* selected = available, or [p for p in policy_names if p in available]
selected(names) ==
    IF names = <<"all">> THEN available ELSE SelectSeq(names, IsAvailable)

\* horizon_sec when horizon_days is None: max(span, 3600) over the first
\* and the last loaded event, 3600 for a single event.
HorizonOf(evts) ==
    IF Len(evts) > 1
    THEN Max2(evts[Len(evts)].timestamp - evts[1].timestamp, SecondsPerHour)
    ELSE SecondsPerHour

EventTemplate(source, component, event, key, value, actor, ip, cid) ==
    [source |-> source, component |-> component, event |-> event, key |-> key,
     value |-> value, actor |-> actor, ip |-> ip, correlation_id |-> cid]

EventTemplates ==
    {EventTemplate("api-gw-01", "api", "auth_failure", "username", "admin", "unknown", "10.0.0.99", 0),
     EventTemplate("api-gw-01", "api", "rate_exceeded", "rps", "300", "", "", 0),
     EventTemplate("api-gw-01", "api", "service_status", "status", "degraded", "system", "", 0),
     EventTemplate("db-01", "db", "service_status", "status", "down", "system", "", 0),
     EventTemplate("inv-01", "edge", "telemetry_read", "voltage", "300", "", "", 0),
     EventTemplate("inv-01", "edge", "cmd_exec", "command", "breaker_open", "intruder", "10.0.0.99", 1)}

\* Seconds between one event of the file and the next.
EventGaps == {5, 61}

MkEvents(tpl, gaps) ==
    [k \in 1..Len(tpl) |->
        [timestamp |-> SumSeq([j \in 1..(k - 1) |-> gaps[j]]),
         source |-> tpl[k].source, component |-> tpl[k].component,
         event |-> tpl[k].event, key |-> tpl[k].key, value |-> tpl[k].value,
         actor |-> tpl[k].actor, ip |-> tpl[k].ip,
         correlation_id |-> tpl[k].correlation_id]]

PolicyNameLists == {<<"all">>, <<"baseline", "nosuch", "minimal">>}

InitPipeline ==
    /\ pc = "load"
    /\ \E n \in 0..MaxEvents :
         \E tpl \in [1..n -> EventTemplates] :
             \E gaps \in [1..(IF n = 0 THEN 0 ELSE n - 1) -> EventGaps] :
                 events = MkEvents(tpl, gaps)
    /\ policy_names \in PolicyNameLists
    /\ all_metrics = <<>>
    /\ all_incidents = <<>>
    /\ input_lines = <<>>
    /\ incidents = <<>>
    /\ horizon_sec = 0
    /\ metrics = NoMetrics
    /\ alerts = <<>>
    /\ policy_modifiers = <<>>
    /\ WatchNotStarted

\* run_pipeline up to the policy loop: nothing to analyse, or the horizon.
Load ==
    /\ pc = "load"
    /\ IF events = <<>>
       THEN pc' = "done" /\ UNCHANGED horizon_sec
       ELSE pc' = "policies" /\ horizon_sec' = HorizonOf(events)
    /\ UNCHANGED <<incidents, metrics, alerts, policy_modifiers, pipeline_vars,
                   watch_vars>>

\* One turn of "for pname in selected".
EvaluatePolicy ==
    /\ pc = "policies"
    /\ Len(all_metrics) < Len(selected(policy_names))
    /\ LET pname == selected(policy_names)[Len(all_metrics) + 1]
           modifiers == get_modifiers(pname)
           found == detect(events, RulesCfg, modifiers)
           built == correlate(found, pname, modifiers, _DEFAULT_MERGE_WINDOW_SEC)
           m == compute(built, pname, horizon_sec)
       IN  /\ policy_modifiers' = modifiers
           /\ alerts' = found
           /\ incidents' = built
           /\ metrics' = m
           /\ all_metrics' = Append(all_metrics, m)
           /\ all_incidents' = all_incidents \o built
    /\ UNCHANGED <<pc, horizon_sec, events, policy_names, input_lines, watch_vars>>

\* The outputs of the run, each written by _atomic_write.
WriteOutputs ==
    /\ pc = "policies"
    /\ Len(all_metrics) = Len(selected(policy_names))
    /\ out_files' = [f \in OutputFiles |-> [iteration |-> 1, chunks |-> ContentChunks]]
    /\ pc' = "done"
    /\ UNCHANGED <<analysis_vars, file_exists, file, writer_half, accumulated_events,
                   file_offset, current_size, iteration, tmp_file, reader_view>>

NextPipeline == Load \/ EvaluatePolicy \/ WriteOutputs

SpecPipeline == InitPipeline /\ [][NextPipeline]_vars

(***************************************************************************)
(* Claims about the batch pipeline (checked under SpecPipeline).           *)
(***************************************************************************)
ModifiersOf(m) == get_modifiers(m.policy)

\* The mttd and mttr multipliers of p are at most those of q for every
\* threat type.
MttdMttrLeq(p, q) ==
    \A t \in ThreatTypes :
        /\ Modifier(p, t, "mttd_multiplier") <= Modifier(q, t, "mttd_multiplier")
        /\ Modifier(p, t, "mttr_multiplier") <= Modifier(q, t, "mttr_multiplier")

SameWindowAndThreshold(p, q) ==
    \A t \in ThreatTypes :
        /\ Modifier(p, t, "window_multiplier") = Modifier(q, t, "window_multiplier")
        /\ Modifier(p, t, "threshold_multiplier") = Modifier(q, t, "threshold_multiplier")

MeansLeq(m, n) ==
    /\ m.mean_mttd_min <= n.mean_mttd_min
    /\ m.mean_mttr_min <= n.mean_mttr_min

\* C5 as stated: over the same events and rules, a policy whose mttd and
\* mttr multipliers are at most those of another for every threat type
\* (window and threshold multipliers unconstrained) has mean_mttd_min and
\* mean_mttr_min at most the other's.
C5_MeansMonotoneInMultipliers ==
    \A i, j \in 1..Len(all_metrics) :
        MttdMttrLeq(ModifiersOf(all_metrics[i]), ModifiersOf(all_metrics[j]))
            => MeansLeq(all_metrics[i], all_metrics[j])

\* C5 amended: the same, for two policies that also have equal window and
\* threshold multipliers for every threat type.
C5_MeansMonotoneUnderEqualDetection ==
    \A i, j \in 1..Len(all_metrics) :
        (/\ MttdMttrLeq(ModifiersOf(all_metrics[i]), ModifiersOf(all_metrics[j]))
         /\ SameWindowAndThreshold(ModifiersOf(all_metrics[i]),
                                   ModifiersOf(all_metrics[j])))
            => MeansLeq(all_metrics[i], all_metrics[j])

\* Two policies with equal window and threshold multipliers were evaluated,
\* both raised incidents, and the one with the smaller multipliers has the
\* strictly smaller means.
C5_Witness ==
    \E i, j \in 1..Len(all_metrics) :
        /\ MttdMttrLeq(ModifiersOf(all_metrics[i]), ModifiersOf(all_metrics[j]))
        /\ SameWindowAndThreshold(ModifiersOf(all_metrics[i]),
                                  ModifiersOf(all_metrics[j]))
        /\ all_metrics[i].incidents_total > 0
        /\ all_metrics[j].incidents_total > 0
        /\ all_metrics[i].mean_mttd_min < all_metrics[j].mean_mttd_min
        /\ all_metrics[i].mean_mttr_min < all_metrics[j].mean_mttr_min

\* The policy names the caller selects by name (None and ["all"] select
\* every configured policy).
NamedPolicies ==
    IF policy_names = <<"all">> THEN {}
    ELSE {policy_names[k] : k \in 1..Len(policy_names)}

HasMetricsRecord(name) ==
    \E k \in 1..Len(all_metrics) : all_metrics[k].policy = name

\* C11: a run over a non-empty input ends with a metrics record for every
\* policy name the caller selected, also for a name that is not in the
\* policies configuration (evaluated with neutral multipliers).
C11_UnknownPolicyStillEvaluated ==
    (pc = "done" /\ events # <<>>) =>
        \A name \in NamedPolicies : HasMetricsRecord(name)

(***************************************************************************)
(* Specification of the detector: detect applied to timestamp-sorted event *)
(* lists under the modifiers of one policy.  The lists are drawn by        *)
(* scenario: rate_exceeded events with service_status events around the    *)
(* 120 s escalation horizon, telemetry readings of one (source, key)       *)
(* group, cmd_exec events of several actors, and events of all the rule    *)
(* families with equal timestamps.                                         *)
(***************************************************************************)
\* RulesCfg with a DDoS rule that declares severity high.
DetectRules == [RulesCfg EXCEPT ![2].severity = "high"]

\* A policy that scales every window and threshold by m (ten-thousandths).
Scaled(m) ==
    [t \in ThreatTypes |-> [window_multiplier |-> m, threshold_multiplier |-> m]]

\* A policy that scales every window by w and every threshold by t.
ScaledBy(w, t) ==
    [th \in ThreatTypes |-> [window_multiplier |-> w, threshold_multiplier |-> t]]

DetectModifiers == {<<>>, Scaled(5000), Scaled(30000), ScaledBy(5000, 15000)}

DdosTemplates ==
    {EventTemplate("api-gw-01", "api", "rate_exceeded", "rps", "300", "", "", 0),
     EventTemplate("api-gw-01", "api", "service_status", "status", "degraded", "system", "", 0),
     EventTemplate("api-gw-01", "api", "service_status", "message", "down", "system", "", 0),
     EventTemplate("db-01", "db", "service_status", "status", "down", "system", "", 0),
     EventTemplate("api-gw-01", "api", "service_status", "status", "healthy", "system", "", 0)}

DdosGaps == {0, 120, 121}

SpoofTemplates ==
    {EventTemplate("inv-01", "edge", "telemetry_read", "voltage", "300", "", "", 0),
     EventTemplate("inv-01", "edge", "telemetry_read", "voltage", "220", "", "", 0)}

SpoofGaps == {5, 61}

CmdTemplates ==
    {EventTemplate("inv-01", "edge", "cmd_exec", "command", "breaker_open", "intruder", "", 0),
     EventTemplate("inv-01", "edge", "cmd_exec", "command", "breaker_open", " Admin ", "", 0),
     EventTemplate("inv-02", "edge", "cmd_exec", "command", "breaker_open", "", "", 0),
     EventTemplate("inv-02", "edge", "cmd_exec", "command", "breaker_open", "operator", "", 2)}

CmdGaps == {0, 5}

MixedTemplates ==
    {EventTemplate("api-gw-01", "api", "auth_failure", "username", "admin", "unknown", "10.0.0.99", 0),
     EventTemplate("api-gw-01", "api", "rate_exceeded", "rps", "300", "", "", 0),
     EventTemplate("db-01", "db", "service_status", "status", "down", "system", "", 0),
     EventTemplate("inv-01", "edge", "telemetry_read", "voltage", "300", "", "", 0),
     EventTemplate("inv-01", "edge", "cmd_exec", "command", "breaker_open", "intruder", "", 1)}

MixedGaps == {0, 5}

BfTemplates ==
    {EventTemplate("api-gw-01", "api", "auth_failure", "username", "admin", "unknown", "10.0.0.99", 0),
     EventTemplate("api-gw-01", "api", "auth_failure", "username", "admin", "unknown", "10.0.0.7", 0),
     EventTemplate("db-01", "db", "auth_failure", "username", "root", "unknown", "", 0)}

BfGaps == {0, 30, 31}

\* events is a list of up to max events of pool, gaps apart.
EventsFrom(pool, gapset, max) ==
    \E n \in 0..max :
        \E tpl \in [1..n -> pool] :
            \E gaps \in [1..(IF n = 0 THEN 0 ELSE n - 1) -> gapset] :
                events = MkEvents(tpl, gaps)

InitDetect ==
    /\ pc = "detect"
    /\ \/ EventsFrom(DdosTemplates, DdosGaps, MaxDdosEvents)
       \/ EventsFrom(SpoofTemplates, SpoofGaps, MaxSpoofEvents)
       \/ EventsFrom(CmdTemplates, CmdGaps, MaxCmdEvents)
       \/ EventsFrom(MixedTemplates, MixedGaps, MaxMixedEvents)
       \/ EventsFrom(BfTemplates, BfGaps, MaxBfEvents)
    /\ policy_modifiers \in DetectModifiers
    /\ alerts = <<>>
    /\ policy_names = <<>>
    /\ all_metrics = <<>>
    /\ all_incidents = <<>>
    /\ input_lines = <<>>
    /\ incidents = <<>>
    /\ horizon_sec = 0
    /\ metrics = NoMetrics
    /\ WatchNotStarted

Detect ==
    /\ pc = "detect"
    /\ alerts' = detect(events, DetectRules, policy_modifiers)
    /\ pc' = "detected"
    /\ UNCHANGED <<incidents, horizon_sec, metrics, policy_modifiers, pipeline_vars,
                   watch_vars>>

NextDetect == Detect

SpecDetect == InitDetect /\ [][NextDetect]_vars

(***************************************************************************)
(* Claims about the detector (checked under SpecDetect).                   *)
(***************************************************************************)
RuleOf(a) == CHOOSE r \in {DetectRules[k] : k \in 1..Len(DetectRules)} : r.id = a.rule_id

AlertsOfRule(prefix) ==
    LET FromRule(a) == startswith(a.rule_id, prefix) IN SelectSeq(alerts, FromRule)

\* A service_status event on the alert's source with value degraded or
\* down, 0 to 120 seconds after the first event of the firing buffer.
ServiceImpactSeen(a) ==
    \E k \in 1..Len(events) :
        /\ events[k].event = "service_status"
        /\ events[k].source = a.source
        /\ events[k].value \in {"degraded", "down"}
        /\ 0 <= events[k].timestamp - a.counted[1].timestamp
        /\ events[k].timestamp - a.counted[1].timestamp <= 120

\* The same, the event's key being "status".
ServiceStatusImpactSeen(a) ==
    \E k \in 1..Len(events) :
        /\ events[k].event = "service_status"
        /\ events[k].key = "status"
        /\ events[k].source = a.source
        /\ events[k].value \in {"degraded", "down"}
        /\ 0 <= events[k].timestamp - a.counted[1].timestamp
        /\ events[k].timestamp - a.counted[1].timestamp <= 120

Escalated(a) == a.severity = "critical" /\ a.confidence = 98

AsDeclared(a) ==
    a.severity = RuleOf(a).severity /\ a.confidence = RuleOf(a).confidence

DdosAlerts == AlertsOfRule(<<"RULE-DDOS">>)

\* C13 as stated: a DDoS alert is critical with confidence 0.98 exactly
\* when a service_status event of the same source with value degraded or
\* down lies 0 to 120 s after the first event of the firing buffer, and
\* carries the rule's severity and confidence otherwise.
C13_DdosEscalatedIffServiceImpact ==
    \A i \in 1..Len(DdosAlerts) :
        /\ Escalated(DdosAlerts[i]) <=> ServiceImpactSeen(DdosAlerts[i])
        /\ ~ServiceImpactSeen(DdosAlerts[i]) => AsDeclared(DdosAlerts[i])

\* C13 amended: the same, for a service_status event whose key is "status".
C13_DdosEscalatedIffStatusImpact ==
    \A i \in 1..Len(DdosAlerts) :
        /\ Escalated(DdosAlerts[i]) <=> ServiceStatusImpactSeen(DdosAlerts[i])
        /\ ~ServiceStatusImpactSeen(DdosAlerts[i]) => AsDeclared(DdosAlerts[i])

\* A DDoS alert escalated by a status event exactly 120 s after the first
\* event of its buffer.
C13_Witness ==
    \E i \in 1..Len(DdosAlerts) :
        /\ Escalated(DdosAlerts[i])
        /\ \E k \in 1..Len(events) :
            /\ events[k].event = "service_status"
            /\ events[k].key = "status"
            /\ events[k].source = DdosAlerts[i].source
            /\ events[k].timestamp - DdosAlerts[i].counted[1].timestamp = 120

SpoofAlerts == AlertsOfRule(<<"RULE-SPOOF">>)

\* The anomalous readings of the (source, key) group of a spoof alert.
GroupAnomalies(a) ==
    LET InGroup(e) == /\ e.event = RuleOf(a).match_event
                      /\ e.source = a.source
                      /\ e.key = a.counted[1].key
    IN  Anomalies(SortByField(SelectSeq(events, InGroup), "timestamp"), RuleOf(a), 0, FALSE)

\* Five of the anomalous readings lie within one effective window.
FiveAnomaliesInWindow(a) ==
    LET an == GroupAnomalies(a) IN
    \E i \in 1..(Len(an) - 4) :
        (an[i + 4].timestamp - an[i].timestamp) * 10000
            <= EffectiveWindow(RuleOf(a), policy_modifiers)

\* C14: the spoof alert of a group with 5 or more anomalous readings
\* within one rule window has severity high and confidence 0.90, whatever
\* the effective threshold at which the rule fired.
C14_FiveAnomaliesEscalate ==
    \A i \in 1..Len(SpoofAlerts) :
        FiveAnomaliesInWindow(SpoofAlerts[i]) =>
            SpoofAlerts[i].severity = "high" /\ SpoofAlerts[i].confidence = 90

CmdRule == CHOOSE r \in {DetectRules[k] : k \in 1..Len(DetectRules)} :
               startswith(r.id, <<"RULE-UCMD">>)

CmdAlerts == AlertsOfRule(<<"RULE-UCMD">>)

\* The cmd_exec events whose actor, trimmed and lowered, is empty or not
\* one of the allowed actors.
UnauthorizedEvents ==
    LET Unauthorized(e) ==
            /\ e.event = CmdRule.match_event
            /\ \/ StripLower(e.actor) = ""
               \/ \A a \in CmdRule.actor_not_in : StripLower(e.actor) # Lower(a)
    IN  SelectSeq(events, Unauthorized)

\* C15: detect emits exactly one unauthorized-command alert if some
\* cmd_exec event is unauthorized and none otherwise, whatever the window
\* and threshold multipliers; the alert counts the unauthorized events,
\* carries the timestamp of the first of them, severity critical, and
\* confidence 0.99 for 3 or more of them and the rule's confidence
\* otherwise.
C15_OneAlertForUnauthorizedCommands ==
    pc = "detected" =>
        IF UnauthorizedEvents = <<>> THEN CmdAlerts = <<>>
        ELSE /\ Len(CmdAlerts) = 1
             /\ CmdAlerts[1].event_count = Len(UnauthorizedEvents)
             /\ CmdAlerts[1].timestamp = UnauthorizedEvents[1].timestamp
             /\ CmdAlerts[1].severity = "critical"
             /\ CmdAlerts[1].confidence =
                    IF Len(UnauthorizedEvents) >= 3 THEN 99 ELSE CmdRule.confidence

\* Three unauthorized commands next to one of an allowed actor written
\* " Admin ", detected under scaled window and threshold.
C15_Witness ==
    /\ pc = "detected"
    /\ policy_modifiers # <<>>
    /\ Len(UnauthorizedEvents) >= 3
    /\ \E k \in 1..Len(events) : events[k].actor = " Admin "
    /\ Len(CmdAlerts) = 1
    /\ CmdAlerts[1].confidence = 99

\* The rule family of an alert, by the prefix of its rule id.
FamilyOf(a) ==
    CASE startswith(a.rule_id, <<"RULE-BF">>) -> "BF"
      [] startswith(a.rule_id, <<"RULE-DDOS">>) -> "DDOS"
      [] startswith(a.rule_id, <<"RULE-SPOOF">>) -> "SPOOF"
      [] startswith(a.rule_id, <<"RULE-UCMD">>) -> "UCMD"
      [] startswith(a.rule_id, <<"RULE-OUT">>) -> "OUT"

\* The positions in events of the partition that raised the alert: the
\* events the rule matches that share the partition key of the events
\* counted (every matched event for an unauthorized-command alert).
PartitionOfAlert(a) ==
    {k \in 1..Len(events) :
        /\ events[k].event = RuleOf(a).match_event
        /\ FamilyOf(a) # "UCMD" =>
              PartitionKey(FamilyOf(a), events[k]) = PartitionKey(FamilyOf(a), a.counted[1])}

\* C16: every alert of detect counts at least one event and at most the
\* events of the partition that raised it, and carries the earliest
\* timestamp of the events it counts.
C16_EventCountAndTimestamp ==
    \A i \in 1..Len(alerts) :
        /\ 1 <= alerts[i].event_count
        /\ alerts[i].event_count = Len(alerts[i].counted)
        /\ alerts[i].event_count <= Cardinality(PartitionOfAlert(alerts[i]))
        /\ \A k \in 1..Len(alerts[i].counted) :
              alerts[i].timestamp <= alerts[i].counted[k].timestamp
        /\ \E k \in 1..Len(alerts[i].counted) :
              alerts[i].timestamp = alerts[i].counted[k].timestamp

\* An alert that counts several events of different timestamps and fewer
\* events than its partition holds.
C16_Witness ==
    \E i \in 1..Len(alerts) :
        /\ alerts[i].event_count >= 2
        /\ alerts[i].event_count < Cardinality(PartitionOfAlert(alerts[i]))
        /\ alerts[i].counted[Len(alerts[i].counted)].timestamp > alerts[i].timestamp

\* C20: the alerts of detect are in non-decreasing timestamp order, and
\* alerts of equal timestamp are in the order in which they were raised,
\* that is in ascending alert_id order.
C20_AlertsSortedByTimestampThenId ==
    \A i, j \in 1..Len(alerts) :
        i < j =>
            /\ alerts[i].timestamp <= alerts[j].timestamp
            /\ alerts[i].timestamp = alerts[j].timestamp
                  => alerts[i].alert_id < alerts[j].alert_id

\* Two alerts of equal timestamp, and an alert raised first that the sort
\* moved behind them.
C20_Witness ==
    /\ \E i, j \in 1..Len(alerts) :
          i < j /\ alerts[i].timestamp = alerts[j].timestamp
    /\ \E i, j \in 1..Len(alerts) :
          i < j /\ alerts[i].alert_id > alerts[j].alert_id

BfRule == CHOOSE r \in {DetectRules[k] : k \in 1..Len(DetectRules)} :
              startswith(r.id, <<"RULE-BF">>)

BfAlerts == AlertsOfRule(<<"RULE-BF">>)

\* The (ip, source) keys of the auth_failure events.
BfPartitions ==
    {PartitionKey("BF", events[k]) :
        k \in {j \in 1..Len(events) : events[j].event = BfRule.match_event}}

\* The positions in events of the auth_failure events of one partition.
BfPartitionEvents(key) ==
    {k \in 1..Len(events) :
        /\ events[k].event = BfRule.match_event
        /\ PartitionKey("BF", events[k]) = key}

\* The events of the partition with timestamps in [e.ts - W, e.ts], e
\* being the event at position k.
BfInWindowOf(key, k) ==
    {j \in BfPartitionEvents(key) :
        /\ events[j].timestamp <= events[k].timestamp
        /\ (events[k].timestamp - events[j].timestamp) * 10000
               <= EffectiveWindow(BfRule, policy_modifiers)}

\* The events of the partition that have at least T events in their window.
BfQualifying(key) ==
    {k \in BfPartitionEvents(key) :
        Cardinality(BfInWindowOf(key, k)) >= EffectiveThreshold(BfRule, policy_modifiers)}

BfAlertsOfPartition(key) ==
    {i \in 1..Len(BfAlerts) : PartitionKey("BF", BfAlerts[i].counted[1]) = key}

\* C21: with T = max(1, round(threshold * threshold_multiplier)) and
\* W = window_sec * window_multiplier, the brute-force rule raises an
\* alert for an (ip, source) partition iff some auth_failure event e of
\* the partition has at least T events of the partition with timestamps
\* in [e.ts - W, e.ts]; the alert is raised at the earliest such e and
\* carries the timestamp of the oldest event of that window.
C21_BruteForceAlertIffWindowHoldsThreshold ==
    pc = "detected" =>
        \A key \in BfPartitions :
            LET Q == BfQualifying(key) IN
            IF Q = {} THEN BfAlertsOfPartition(key) = {}
            ELSE LET e == CHOOSE k \in Q :
                              \A j \in Q : events[k].timestamp <= events[j].timestamp
                 IN  \E i \in BfAlertsOfPartition(key) :
                        /\ BfAlerts[i].counted[Len(BfAlerts[i].counted)].timestamp
                               = events[e].timestamp
                        /\ \A j \in BfInWindowOf(key, e) :
                               BfAlerts[i].timestamp <= events[j].timestamp
                        /\ \E j \in BfInWindowOf(key, e) :
                               BfAlerts[i].timestamp = events[j].timestamp

\* A brute-force alert under a threshold of 2 or more whose partition has
\* an older event that slid out of the window before the alert was raised,
\* next to a partition that never holds the threshold.
C21_Witness ==
    /\ pc = "detected"
    /\ EffectiveThreshold(BfRule, policy_modifiers) >= 2
    /\ \E key \in BfPartitions : BfQualifying(key) = {}
    /\ \E i \in 1..Len(BfAlerts) :
          \E k \in BfPartitionEvents(PartitionKey("BF", BfAlerts[i].counted[1])) :
              events[k].timestamp < BfAlerts[i].timestamp

WindowedFamilies == {"BF", "DDOS", "SPOOF", "OUT"}

\* The partition key of the events counted in an alert of a windowed rule.
KeyOfAlert(a) == PartitionKey(FamilyOf(a), a.counted[1])

\* C22: in one run of detect a windowed rule raises at most one alert
\* per partition key ((ip, source) for brute force, source for DDoS and
\* outage, (source, key) for telemetry spoof), however many qualifying
\* windows the partition holds.
C22_OneAlertPerPartition ==
    \A i, j \in 1..Len(alerts) :
        (/\ i # j
         /\ alerts[i].rule_id = alerts[j].rule_id
         /\ FamilyOf(alerts[i]) \in WindowedFamilies)
        => KeyOfAlert(alerts[i]) # KeyOfAlert(alerts[j])

\* A brute-force alert that counts one event (threshold 1) of a partition
\* with two later events, each of which fills a window again, next to an
\* alert of the same rule for another partition.
C22_Witness ==
    /\ EffectiveThreshold(BfRule, policy_modifiers) = 1
    /\ Len(BfAlerts) >= 2
    /\ \E i \in 1..Len(BfAlerts) :
          Cardinality({k \in BfPartitionEvents(KeyOfAlert(BfAlerts[i])) :
                          events[k].timestamp > BfAlerts[i].timestamp}) >= 2

\* C29: the event_count of every alert of a brute-force, DDoS,
\* telemetry-spoof or outage rule is the effective threshold
\* max(1, round(threshold * threshold_multiplier)), never more, however
\* many further matching events lie in the same window.
C29_EventCountIsEffectiveThreshold ==
    \A i \in 1..Len(alerts) :
        FamilyOf(alerts[i]) \in WindowedFamilies =>
            alerts[i].event_count = EffectiveThreshold(RuleOf(alerts[i]), policy_modifiers)

\* A brute-force alert under a threshold of 2 or more whose partition
\* has more events within the window of the alert's first event than the
\* alert counts.
C29_Witness ==
    \E i \in 1..Len(BfAlerts) :
        /\ BfAlerts[i].event_count >= 2
        /\ Cardinality({k \in BfPartitionEvents(KeyOfAlert(BfAlerts[i])) :
                /\ BfAlerts[i].timestamp <= events[k].timestamp
                /\ (events[k].timestamp - BfAlerts[i].timestamp) * 10000
                       <= EffectiveWindow(BfRule, policy_modifiers)})
              > BfAlerts[i].event_count

WindowedRules ==
    {r \in {DetectRules[k] : k \in 1..Len(DetectRules)} :
        \E f \in {"RULE-BF", "RULE-DDOS", "RULE-SPOOF", "RULE-OUT"} : startswith(r.id, <<f>>)}

\* The partition keys for which a rule raised an alert in a list of alerts.
KeysAlerted(as, rule) ==
    {KeyOfAlert(as[i]) : i \in {j \in 1..Len(as) : as[j].rule_id = rule.id}}

\* Under pm2 the rule has a threshold no higher and a window no shorter
\* than under pm1.
NoStricter(rule, pm2, pm1) ==
    /\ EffectiveThreshold(rule, pm2) <= EffectiveThreshold(rule, pm1)
    /\ EffectiveWindow(rule, pm2) >= EffectiveWindow(rule, pm1)

\* C30: for fixed events, a windowed rule that raises an alert for a
\* partition with effective threshold T and window W also raises one for
\* that partition with any threshold T' <= T and window W' >= W.
C30_AlertsMonotoneInThresholdAndWindow ==
    pc = "detected" =>
        \A pm2 \in DetectModifiers :
            LET alerts2 == detect(events, DetectRules, pm2) IN
            \A rule \in WindowedRules :
                NoStricter(rule, pm2, policy_modifiers)
                => KeysAlerted(alerts, rule) \subseteq KeysAlerted(alerts2, rule)

\* A rule that raises an alert for a partition under threshold T >= 2 and
\* window W, and under a lower threshold and no shorter window raises
\* alerts for that partition and for another one.
C30_Witness ==
    /\ pc = "detected"
    /\ \E pm2 \in DetectModifiers :
          \E rule \in WindowedRules :
              /\ NoStricter(rule, pm2, policy_modifiers)
              /\ EffectiveThreshold(rule, pm2) < EffectiveThreshold(rule, policy_modifiers)
              /\ KeysAlerted(alerts, rule) # {}
              /\ KeysAlerted(alerts, rule)
                     # KeysAlerted(detect(events, DetectRules, pm2), rule)

(***************************************************************************)
(* detect on the events of a file in file order: run_pipeline and          *)
(* _run_analysis hand the loaded list to detect as it is, so the list is   *)
(* any ordering of the file's events.                                      *)
(***************************************************************************)
FileTemplates ==
    {EventTemplate("inv-01", "edge", "cmd_exec", "command", "breaker_open", "intruder", "", 0),
     EventTemplate("inv-02", "edge", "cmd_exec", "command", "breaker_open", "intruder", "", 0),
     EventTemplate("db-01", "db", "service_status", "status", "down", "system", "", 0),
     EventTemplate("db-01", "db", "service_status", "status", "degraded", "system", "", 0)}

FileGaps == {0, 5}

\* The orderings of n lines.
Orderings(n) == {p \in [1..n -> 1..n] : \A i, j \in 1..n : i # j => p[i] # p[j]}

Reordered(evts, p) == [k \in 1..Len(evts) |-> evts[p[k]]]

InitFileOrder ==
    /\ pc = "detect"
    /\ \E n \in 0..MaxFileEvents :
         \E tpl \in [1..n -> FileTemplates] :
             \E gaps \in [1..(IF n = 0 THEN 0 ELSE n - 1) -> FileGaps] :
                 \E p \in Orderings(n) :
                     events = Reordered(MkEvents(tpl, gaps), p)
    /\ policy_modifiers = <<>>
    /\ alerts = <<>>
    /\ policy_names = <<>>
    /\ all_metrics = <<>>
    /\ all_incidents = <<>>
    /\ input_lines = <<>>
    /\ incidents = <<>>
    /\ horizon_sec = 0
    /\ metrics = NoMetrics
    /\ WatchNotStarted

NextFileOrder == Detect

SpecFileOrder == InitFileOrder /\ [][NextFileOrder]_vars

\* The fields of the alerts that the claim compares.
AlertFields(as) ==
    {[rule_id |-> as[i].rule_id, source |-> as[i].source, timestamp |-> as[i].timestamp,
      event_count |-> as[i].event_count, severity |-> as[i].severity] : i \in 1..Len(as)}

\* C28: the rule_id, source, timestamp, event_count and severity of the
\* alerts of detect are the same for every ordering of the same events in
\* the input list.
C28_AlertsIndependentOfInputOrder ==
    pc = "detected" =>
        \A p \in Orderings(Len(events)) :
            AlertFields(detect(Reordered(events, p), DetectRules, policy_modifiers))
                = AlertFields(alerts)

(***************************************************************************)
(* The JSONL loaders: load_events_jsonl and the read of a watch tick,      *)
(* src/analyzer/pipeline.py, over the lines of a file.  A line is          *)
(* [kind, rec]: rec is its line number and kind tells what its text is:    *)
(* an event object, "{}", white space, text that is not JSON, or the JSON  *)
(* text of a number, a list or null.                                       *)
(***************************************************************************)
LineKinds == {"event", "empty_object", "blank", "invalid_json", "number", "list", "null"}

\* line.strip() is empty
IsBlank(line) == line.kind = "blank"

\* json.loads(line): JSONDecodeError, or the type of the value.
json_loads(line) ==
    CASE line.kind = "invalid_json" -> [raises |-> "JSONDecodeError"]
      [] line.kind \in {"event", "empty_object"} -> [raises |-> "", type |-> "dict"]
      [] line.kind = "number" -> [raises |-> "", type |-> "int"]
      [] line.kind = "list" -> [raises |-> "", type |-> "list"]
      [] line.kind = "null" -> [raises |-> "", type |-> "NoneType"]

\* _parse_event(obj): row.get(...) on every field, AttributeError on a
\* value that has no get; an absent field gets its default.
ParseRow(line, obj) ==
    IF obj.type = "dict"
    THEN [raises |-> "", event |-> [rec |-> line.rec, defaults |-> line.kind = "empty_object"]]
    ELSE [raises |-> "AttributeError"]

\* The exceptions the loaders catch around json.loads and _parse_event.
CaughtByLoader == {"JSONDecodeError", "KeyError"}

\* for line in fh: strip; skip empty; try: events.append(_parse_event(
\* json.loads(line))) except (JSONDecodeError, KeyError): skip.  Any other
\* exception leaves the loader.
RECURSIVE LoadLines(_, _)
LoadLines(lines, out) ==
    IF lines = <<>> THEN [raises |-> "", events |-> out]
    ELSE LET line == Head(lines) IN
         IF IsBlank(line) THEN LoadLines(Tail(lines), out)
         ELSE LET obj == json_loads(line) IN
              IF obj.raises \in CaughtByLoader THEN LoadLines(Tail(lines), out)
              ELSE LET row == ParseRow(line, obj) IN
                   IF row.raises \in CaughtByLoader THEN LoadLines(Tail(lines), out)
                   ELSE IF row.raises # "" THEN [raises |-> row.raises, events |-> out]
                   ELSE LoadLines(Tail(lines), Append(out, row.event))

InitLoad ==
    /\ pc \in {"batch_load", "watch_read"}
    /\ \E n \in 0..MaxLines :
         \E kinds \in [1..n -> LineKinds] :
             input_lines = [k \in 1..n |-> [kind |-> kinds[k], rec |-> k]]
    /\ events = <<>>
    /\ policy_names = <<>>
    /\ all_metrics = <<>>
    /\ all_incidents = <<>>
    /\ incidents = <<>>
    /\ horizon_sec = 0
    /\ metrics = NoMetrics
    /\ alerts = <<>>
    /\ policy_modifiers = <<>>
    /\ WatchNotStarted

\* events = load_events(input_path) of run_pipeline
LoadBatch ==
    /\ pc = "batch_load"
    /\ LET r == LoadLines(input_lines, <<>>) IN
        IF r.raises = ""
        THEN pc' = "loaded" /\ events' = r.events
        ELSE pc' = "aborted" /\ UNCHANGED events
    /\ UNCHANGED <<incidents, horizon_sec, metrics, alerts, policy_modifiers,
                   policy_names, all_metrics, all_incidents, input_lines, watch_vars>>

\* The read of a watch tick over the same lines; an exception that is not
\* a KeyboardInterrupt leaves watch_pipeline.
WatchRead ==
    /\ pc = "watch_read"
    /\ LET r == LoadLines(input_lines, <<>>) IN
        IF r.raises = ""
        THEN pc' = "loaded" /\ events' = r.events
        ELSE pc' = "aborted" /\ UNCHANGED events
    /\ UNCHANGED <<incidents, horizon_sec, metrics, alerts, policy_modifiers,
                   policy_names, all_metrics, all_incidents, input_lines, watch_vars>>

NextLoad == LoadBatch \/ WatchRead

SpecLoad == InitLoad /\ [][NextLoad]_vars

(***************************************************************************)
(* Claims about the loaders (checked under SpecLoad).                      *)
(***************************************************************************)
\* The lines that are JSON objects, in file order.
ObjectLines ==
    LET IsObject(line) == line.kind \in {"event", "empty_object"} IN
    SelectSeq(input_lines, IsObject)

\* C12: a load never aborts on a bad line: when it has run over the lines,
\* it has returned, and the events it loaded are those of the lines that
\* are JSON objects, one each and in order.
C12_BadLinesSkipped ==
    pc # "batch_load" /\ pc # "watch_read" =>
        /\ pc = "loaded"
        /\ Len(events) = Len(ObjectLines)
        /\ \A k \in 1..Len(events) : events[k].rec = ObjectLines[k].rec

(***************************************************************************)
(* Input file and output files of watch mode.                              *)
(*                                                                         *)
(* The JSONL input is a sequence of bytes.  The line of record r is two    *)
(* bytes: [rec |-> r, part |-> 1], the first half of its JSON text, and    *)
(* [rec |-> r, part |-> 2], the rest of the text with the newline; ts_ok   *)
(* tells whether the record's timestamp field parses as ISO-8601.          *)
(***************************************************************************)
\* json.loads(line) succeeds and gives an object: the line is the whole
\* text of one record.
IsJsonObject(line) ==
    /\ Len(line) = 2
    /\ line[1].part = 1
    /\ line[2].part = 2
    /\ line[1].rec = line[2].rec

_parse_event(line) == [rec |-> line[1].rec, ts_ok |-> line[1].ts_ok]

\* for line in fh: ... json.loads(line) ... except JSONDecodeError: skip.
\* A line ends with the byte that carries the newline; what follows the
\* last newline is read as a last line too.
RECURSIVE ParseLines(_, _, _)
ParseLines(bytes, line, out) ==
    IF bytes = <<>>
    THEN IF IsJsonObject(line) THEN Append(out, _parse_event(line)) ELSE out
    ELSE LET l2 == Append(line, Head(bytes)) IN
         IF Head(bytes).part = 2
         THEN ParseLines(Tail(bytes), <<>>,
                         IF IsJsonObject(l2) THEN Append(out, _parse_event(l2)) ELSE out)
         ELSE ParseLines(Tail(bytes), l2, out)

load_events_jsonl(bytes) == ParseLines(bytes, <<>>, <<>>)

\* fh.seek(file_offset); for line in fh: ...
ReadFrom(bytes, offset) == ParseLines(SubSeq(bytes, offset + 1, Len(bytes)), <<>>, <<>>)

\* _run_analysis with horizon_days None: _ts(events[0].timestamp) and
\* _ts(events[-1].timestamp) raise ValueError on a timestamp that is not
\* ISO-8601.
HorizonRaises(evts) ==
    /\ Len(evts) > 1
    /\ (~evts[1].ts_ok \/ ~evts[Len(evts)].ts_ok)

(***************************************************************************)
(* The writer of the input file (the emulator's stream_jsonl): it appends  *)
(* the lines of records 1, 2, ... and a line may become visible in two     *)
(* steps (a buffer flushed in the middle of a line).                       *)
(***************************************************************************)
RecordsStarted == Cardinality({k \in 1..Len(file) : file[k].part = 1})

WriterAppendLine ==
    /\ ~writer_half
    /\ RecordsStarted < MaxRecords
    /\ \E ok \in BOOLEAN :
        file' = file \o <<[rec |-> RecordsStarted + 1, part |-> 1, ts_ok |-> ok],
                          [rec |-> RecordsStarted + 1, part |-> 2, ts_ok |-> ok]>>
    /\ file_exists' = TRUE
    /\ UNCHANGED <<pc, analysis_vars, writer_half, accumulated_events, file_offset,
                   current_size, iteration, out_files, tmp_file, reader_view>>

WriterAppendFirstHalf ==
    /\ ~writer_half
    /\ RecordsStarted < MaxRecords
    /\ \E ok \in BOOLEAN :
        file' = Append(file, [rec |-> RecordsStarted + 1, part |-> 1, ts_ok |-> ok])
    /\ file_exists' = TRUE
    /\ writer_half' = TRUE
    /\ UNCHANGED <<pc, analysis_vars, accumulated_events, file_offset,
                   current_size, iteration, out_files, tmp_file, reader_view>>

WriterAppendSecondHalf ==
    /\ writer_half
    /\ file' = Append(file, [file[Len(file)] EXCEPT !.part = 2])
    /\ writer_half' = FALSE
    /\ UNCHANGED <<pc, analysis_vars, file_exists, accumulated_events, file_offset,
                   current_size, iteration, out_files, tmp_file, reader_view>>

(***************************************************************************)
(* watch_pipeline, src/analyzer/pipeline.py                                *)
(***************************************************************************)
\* if os.path.isfile(input_path): accumulated_events = load_events(...)
Preload ==
    /\ pc = "start"
    /\ IF file_exists
       THEN /\ accumulated_events' = load_events_jsonl(file)
            /\ pc' = "preload_size"
       ELSE /\ pc' = "check"
            /\ UNCHANGED accumulated_events
    /\ UNCHANGED <<analysis_vars, file_exists, file, writer_half, file_offset,
                   current_size, iteration, out_files, tmp_file, reader_view>>

\* file_offset = os.path.getsize(input_path)
PreloadSize ==
    /\ pc = "preload_size"
    /\ file_offset' = Len(file)
    /\ pc' = "check"
    /\ UNCHANGED <<analysis_vars, file_exists, file, writer_half, accumulated_events,
                   current_size, iteration, out_files, tmp_file, reader_view>>

\* if os.path.isfile(input_path): current_size = os.path.getsize(...);
\* if current_size > file_offset: (read) ... else nothing new: sleep.
CheckSize ==
    /\ pc = "check"
    /\ IF file_exists
       THEN /\ current_size' = Len(file)
            /\ pc' = IF Len(file) > file_offset THEN "read" ELSE "sleep"
       ELSE /\ pc' = "sleep"
            /\ UNCHANGED current_size
    /\ UNCHANGED <<analysis_vars, file_exists, file, writer_half, accumulated_events,
                   file_offset, iteration, out_files, tmp_file, reader_view>>

\* open, seek(file_offset), read the lines to the end of the file,
\* file_offset = current_size; if new_events: extend, iteration += 1 and
\* enter _run_analysis.
ReadNew ==
    /\ pc = "read"
    /\ LET new_events == ReadFrom(file, file_offset) IN
        /\ file_offset' = current_size
        /\ IF new_events # <<>>
           THEN /\ accumulated_events' = accumulated_events \o new_events
                /\ iteration' = iteration + 1
                /\ pc' = "analysis"
           ELSE /\ pc' = "sleep"
                /\ UNCHANGED <<accumulated_events, iteration>>
    /\ UNCHANGED <<analysis_vars, file_exists, file, writer_half, current_size,
                   out_files, tmp_file, reader_view>>

\* _run_analysis up to the writes: horizon, detect, correlate, compute.  An
\* exception leaves _run_analysis and, not being a KeyboardInterrupt,
\* leaves the while loop of watch_pipeline.
Analyse ==
    /\ pc = "analysis"
    /\ pc' = IF HorizonRaises(accumulated_events) THEN "crashed" ELSE "write_results"
    /\ UNCHANGED <<analysis_vars, watch_vars>>

\* The file a position of _run_analysis writes with _atomic_write.
WriteTarget(p) == IF p = "write_results" THEN "results.csv" ELSE "incidents.csv"

AfterWrite(p) == IF p = "write_results" THEN "write_incidents" ELSE "write_report"

\* tempfile.mkstemp(dir=target.parent, ...)
AtomicWriteBegin ==
    /\ pc \in {"write_results", "write_incidents"}
    /\ tmp_file = NoTmp
    /\ tmp_file' = [name |-> WriteTarget(pc), iteration |-> iteration, chunks |-> 0]
    /\ UNCHANGED <<pc, analysis_vars, file_exists, file, writer_half,
                   accumulated_events, file_offset, current_size, iteration,
                   out_files, reader_view>>

\* fh.write(content) with a part of the content written in place of the
\* published file instead of the temporary file.
ChunkWrittenInPlace(out, tmp) ==
    [out |-> [out EXCEPT ![tmp.name] =
                 [iteration |-> tmp.iteration, chunks |-> tmp.chunks + 1]],
     tmp |-> [tmp EXCEPT !.chunks = @ + 1]]

\* fh.write(content); fh.flush(); os.fsync(): one more piece of the
\* content is in the temporary file.
ChunkWritten(out, tmp) ==
    [out |-> out, tmp |-> [tmp EXCEPT !.chunks = @ + 1]]

AtomicWriteChunk ==
    /\ pc \in {"write_results", "write_incidents"}
    /\ tmp_file # NoTmp
    /\ tmp_file.chunks < ContentChunks
    /\ LET w == ChunkWritten(out_files, tmp_file) IN
        /\ out_files' = w.out
        /\ tmp_file' = w.tmp
    /\ UNCHANGED <<pc, analysis_vars, file_exists, file, writer_half,
                   accumulated_events, file_offset, current_size, iteration,
                   reader_view>>

\* os.replace(tmp, path)
AtomicWriteReplace ==
    /\ pc \in {"write_results", "write_incidents"}
    /\ tmp_file # NoTmp
    /\ tmp_file.chunks = ContentChunks
    /\ out_files' = [out_files EXCEPT ![tmp_file.name] =
                        [iteration |-> tmp_file.iteration, chunks |-> tmp_file.chunks]]
    /\ tmp_file' = NoTmp
    /\ pc' = AfterWrite(pc)
    /\ UNCHANGED <<analysis_vars, file_exists, file, writer_half,
                   accumulated_events, file_offset, current_size, iteration,
                   reader_view>>

\* mkstemp, write, fsync or replace raises (an OSError): except
\* BaseException: os.unlink(tmp); raise.  The exception leaves the loop.
AtomicWriteFail ==
    /\ pc \in {"write_results", "write_incidents"}
    /\ tmp_file' = NoTmp
    /\ pc' = "crashed"
    /\ UNCHANGED <<analysis_vars, file_exists, file, writer_half,
                   accumulated_events, file_offset, current_size, iteration,
                   out_files, reader_view>>

\* write_report_txt: returns or raises.
WriteReport ==
    /\ pc = "write_report"
    /\ pc' \in {"sleep", "crashed"}
    /\ UNCHANGED <<analysis_vars, watch_vars>>

\* time.sleep(poll_interval_sec)
Sleep ==
    /\ pc = "sleep"
    /\ pc' = "check"
    /\ UNCHANGED <<analysis_vars, watch_vars>>

\* KeyboardInterrupt inside the try block: an _atomic_write in progress
\* unlinks its temporary file, the loop prints and returns.
Cancel ==
    /\ pc \in {"check", "read", "analysis", "write_results", "write_incidents",
               "write_report", "sleep"}
    /\ pc' = "stopped"
    /\ tmp_file' = NoTmp
    /\ UNCHANGED <<analysis_vars, file_exists, file, writer_half,
                   accumulated_events, file_offset, current_size, iteration,
                   out_files, reader_view>>

(***************************************************************************)
(* A concurrent reader of the output files (the dashboard): open(path)     *)
(* binds to the file published at that moment.                             *)
(***************************************************************************)
ReaderOpen ==
    /\ \E f \in OutputFiles : reader_view' = [reader_view EXCEPT ![f] = out_files[f]]
    /\ UNCHANGED <<pc, analysis_vars, file_exists, file, writer_half,
                   accumulated_events, file_offset, current_size, iteration,
                   out_files, tmp_file>>

InitWatch ==
    /\ pc = "start"
    /\ incidents = <<>>
    /\ horizon_sec = 0
    /\ metrics = NoMetrics
    /\ alerts = <<>>
    /\ policy_modifiers = <<>>
    /\ PipelineNotStarted
    /\ WatchNotStarted

NextWatch ==
    \/ WriterAppendLine
    \/ WriterAppendFirstHalf
    \/ WriterAppendSecondHalf
    \/ Preload
    \/ PreloadSize
    \/ CheckSize
    \/ ReadNew
    \/ Analyse
    \/ AtomicWriteBegin
    \/ AtomicWriteChunk
    \/ AtomicWriteReplace
    \/ AtomicWriteFail
    \/ WriteReport
    \/ Sleep
    \/ Cancel
    \/ ReaderOpen

SpecWatch == InitWatch /\ [][NextWatch]_vars

\* The steps of watch_pipeline itself that do not raise: the process runs,
\* whatever the writer, the reader and the user do.
WatcherStep ==
    \/ Preload
    \/ PreloadSize
    \/ CheckSize
    \/ ReadNew
    \/ Analyse
    \/ AtomicWriteBegin
    \/ AtomicWriteChunk
    \/ AtomicWriteReplace
    \/ WriteReport
    \/ Sleep

SpecWatchLive == SpecWatch /\ WF_vars(WatcherStep)

(***************************************************************************)
(* Claims about watch mode (checked under SpecWatch).                      *)
(***************************************************************************)
\* Records whose two bytes are in the file: complete, valid lines.
CompleteRecords == {file[k].rec : k \in {j \in 1..Len(file) : file[j].part = 2}}

EndOfRecord(r) == CHOOSE k \in 1..Len(file) : file[k].rec = r /\ file[k].part = 2

Accumulated(r) == \E k \in 1..Len(accumulated_events) : accumulated_events[k].rec = r

\* C6: every complete valid record appended to the file is eventually in
\* the accumulated event list.  The watcher reads the file from
\* file_offset on and file_offset never decreases, so a record that lies
\* wholly below file_offset is never read again: the claim requires every
\* such record to be in the list already.
C6_NoRecordSkipped ==
    \A r \in CompleteRecords : EndOfRecord(r) <= file_offset => Accumulated(r)

\* C7: an exception raised by an analysis cycle is logged and the loop goes
\* on to the next poll; the loop ends only on external cancellation.
C7_LoopEndsOnlyOnCancellation == pc # "crashed"

\* C24: no record of the input file is in the accumulated event list more
\* than once, however the writer's appends interleave with the watcher's
\* size check, its read to the end of the file and its update of
\* file_offset.
C24_NoRecordAccumulatedTwice ==
    \A j, k \in 1..Len(accumulated_events) :
        j # k => accumulated_events[j].rec # accumulated_events[k].rec

\* The pre-load found events and no cycle has run since.
PreloadedOnly ==
    /\ pc \notin {"start", "preload_size"}
    /\ iteration = 0
    /\ accumulated_events # <<>>

OutputsWritten == \A f \in OutputFiles : out_files[f] # NoFile

Complete(content) == content.chunks = ContentChunks

\* What open(path) gives: no file yet, or the complete content of the
\* previous or of the current cycle.
C8_Published(f) ==
    out_files[f] # NoFile =>
        /\ Complete(out_files[f])
        /\ out_files[f].iteration \in {iteration - 1, iteration}

C8_Observed(f) ==
    reader_view[f] \notin {NotOpened, NoFile} => Complete(reader_view[f])

\* C8: a reader that opens results.csv or incidents.csv at any moment gets
\* the complete content of the previous or of the new cycle, never a
\* partial file, and a write that fails or is cancelled leaves the
\* published files unchanged.
C8_AtomicRewrite ==
    /\ [](\A f \in OutputFiles : C8_Published(f) /\ C8_Observed(f))
    /\ [][pc' \in {"crashed", "stopped"} => out_files' = out_files]_vars

\* A rewrite is half done (one piece of the new content is written) and a
\* reader that opened the file during it got the previous cycle's content.
C8_Witness ==
    /\ tmp_file # NoTmp
    /\ tmp_file.chunks = 1
    /\ out_files[tmp_file.name] # NoFile
    /\ out_files[tmp_file.name].iteration = iteration - 1
    /\ reader_view[tmp_file.name] = out_files[tmp_file.name]

====
